---- MODULE Spec2Model ----
(***************************************************************************)
(* Model of the streaming analysis pipeline of the Product Hunt analyzer:  *)
(* the GET /api/analyze-stream handler (server.js, test-server.js) with    *)
(* the credential provider (AuthService.getStoredToken), the listing       *)
(* source (ProductHuntService.getTrendingProducts) and the analyzer        *)
(* (ChatGPTService.analyzeProduct) it awaits.                               *)
(*                                                                         *)
(* JavaScript runs the handler on one thread: the code between two awaits  *)
(* is one atomic step, so every action below is the synchronous code that  *)
(* runs when one awaited promise settles, up to the next await.            *)
(***************************************************************************)
EXTENDS Integers, Sequences, FiniteSets, TLC

\* ------------------------------------------------------------------ bounds
\* Longest list the listing source returns in the model.
MaxItems == 2

\* Number of requests in the model of several requests.
NumRequests == 2

\* Most posts an API answers with in the model of the listing source.
MaxPosts == 11

\* Longest list the listing source returns in the model of several requests.
MaxServerItems == 2

\* Identifiers of the products the listing source can return.
ItemIds == {"A", "B", "C"}

\* Texts the external completion can return as the summary of a product.
GptSummaries == {"s1", "s2"}

\* Messages of the errors the collaborators can raise.
ApiErrors == {"Request failed with status code 401"}
FetchErrors == {"Network Error"}
AnalyzerErrors == {"boom"}

\* ------------------------------------------------------------------- state
VARIABLES
    openai,            \* ChatGPTService.openai is configured (constructor)
    pc,                \* position of the handler: the await it is suspended at
    accessToken,       \* handler local: result of getStoredToken()
    products,          \* handler local: result of the fetch race
    i,                 \* handler local: loop index (0-based)
    analyzedProducts,  \* handler local
    successCount,      \* handler local
    errorCount,        \* handler local
    events,            \* frames written by sendEvent, in order
    endCalls,          \* number of res.end() calls made by the handler
    closedAt,          \* history: number of frames written when res.end() was first called, -1 before
    latestAnalysisResults, \* module-level slot of test-server.js
    tokenLog,          \* history: what getStoredToken() resolved with
    fetchLog,          \* history: how the fetch race was decided
    raceLog,           \* history: how each item's race was decided
    lateFetch,         \* history: settlement of a fetch the race had abandoned
    delaysElapsed,     \* history: number of 200 ms delays the run has waited
    requests,          \* several requests: state of each request's handler
    lastRead,          \* several requests: response of /api/latest-results sent in the last step
    lastComplete,      \* history: data of the most recent complete event
    abandoned,         \* promises a race has left behind, and what became of them
    elapsed,           \* milliseconds since the request arrived, until the close
    clientClosed,      \* the client has closed the connection
    exited,            \* the process-level handler has called process.exit(1)
    listing,           \* listing source: state of one getTrendingProducts call
    call,              \* analyzer: state of one analyzeProduct call
    auth,              \* credential provider: the AuthService, its token file, one getStoredToken call
    gate               \* checkEnvironment: the environment and one request passing the middleware

vars == <<openai, pc, accessToken, products, i, analyzedProducts, successCount,
          errorCount, events, endCalls, closedAt, latestAnalysisResults, tokenLog, fetchLog,
          raceLog, lateFetch, delaysElapsed, requests, lastRead, lastComplete,
          abandoned, elapsed, clientClosed, exited, listing, call, auth, gate>>

\* The parts that are modelled on their own: analyzer call, credential
\* provider, environment check.
partVars == <<call, auth, gate>>

\* The variables of the model of several requests (further below).
serverVars == <<requests, lastRead>>

\* What no step of the handler changes.
envVars == <<clientClosed, exited>>

\* JavaScript null, for the slots that hold either null or an object.
null == [null |-> TRUE]

\* ----------------------------------------------------------------- helpers
\* All sequences over S of length at most n without repeated elements.
DistinctSeqs(S, n) ==
    {s \in UNION {[1..k -> S] : k \in 0..n} :
        \A a, b \in 1..Len(s) : a # b => s[a] # s[b]}

\* Vote counts and topic names (topics.map(t => t.name)) of the products, as
\* transformProduct delivers them: one product above 100 votes, one between 20 and 100, one below 20.
VotesOf(x) == CASE x = "A" -> 150 [] x = "B" -> 50 [] OTHER -> 5
TopicsOf(x) ==
    CASE x = "A" -> <<"Developer Tools", "AI">>
      [] x = "B" -> <<>>
      [] OTHER -> <<"Email", "Social Media">>

Item(x) == [id |-> x, name |-> x, votesCount |-> VotesOf(x), topics |-> TopicsOf(x)]

\* Lists the listing source can resolve with: items with pairwise distinct ids.
ItemLists == {[k \in 1..Len(s) |-> Item(s[k])] : s \in DistinctSeqs(ItemIds, MaxItems)}

\* res.end(): the number of frames written at the first call is kept.
FirstEnd(at, written) == IF at < 0 THEN written ELSE at

\* sendEvent(event, data): one frame appended to the response.
sendEvent(evs, event, data) == Append(evs, [event |-> event, data |-> data])

\* { ...product, analysis }
WithAnalysis(product, analysis) ==
    [id |-> product.id, name |-> product.name, votesCount |-> product.votesCount,
     topics |-> product.topics, analysis |-> analysis]

HasError(analysis) == "error" \in DOMAIN analysis

\* ----------------------------------------------------------------- analyzer
\* Outcomes of the external completion call of one analyzeProduct call, after
\* its retries: a JSON text that parses, a text that does not, or an error.
Completions ==
    [kind : {"json"}, summary : GptSummaries]
        \cup {[kind |-> "text"]}
        \cup [kind : {"error"}, message : ApiErrors]

\* t.toLowerCase().includes(keyword) for the topic names of the model, by
\* the keywords each lower-cased name contains; note that "email" contains
\* "ai" and "fintech" contains "tech".
Includes(topic, keyword) ==
    CASE topic = "Developer Tools" -> keyword = "developer"
      [] topic = "AI" -> keyword = "ai"
      [] topic = "Email" -> keyword = "ai"
      [] topic = "Social Media" -> keyword = "social"
      [] topic = "Fintech" -> keyword = "tech"
      [] topic = "Productivity" -> keyword = "productivity"
      [] topic = "Design Tools" -> keyword = "design"
      [] topic = "Marketing" -> keyword = "marketing"
      [] topic = "Machine Learning" -> keyword = "machine learning"
      [] OTHER -> FALSE

\* topics.some(t => includes(t, k1) || includes(t, k2))
SomeTopic(topics, k1, k2) ==
    \E n \in 1..Len(topics) : Includes(topics[n], k1) \/ Includes(topics[n], k2)

\* The five category tests of createFallbackAnalysis, in the order of the code.
FallbackCategories ==
    <<[k1 |-> "developer", k2 |-> "tech", demographic |-> "developers"],
      [k1 |-> "business", k2 |-> "productivity", demographic |-> "business"],
      [k1 |-> "design", k2 |-> "creative", demographic |-> "designers"],
      [k1 |-> "ai", k2 |-> "machine learning", demographic |-> "ai"],
      [k1 |-> "marketing", k2 |-> "social", demographic |-> "marketing"]>>

RECURSIVE FallbackTargetUsers(_, _)
FallbackTargetUsers(topics, n) ==
    IF n > Len(FallbackCategories) THEN <<>>
    ELSE LET c == FallbackCategories[n]
             rest == FallbackTargetUsers(topics, n + 1)
         IN  IF SomeTopic(topics, c.k1, c.k2)
             THEN <<[demographic |-> c.demographic, likelihood |-> "high"]>> \o rest
             ELSE rest

\* Variant: 100 votes already count as a high probability of success.
createFallbackAnalysis_From100(product) ==
    LET voteCount == IF "votesCount" \in DOMAIN product THEN product.votesCount ELSE 0
        topics == IF "topics" \in DOMAIN product THEN product.topics ELSE <<>>
        matched == FallbackTargetUsers(topics, 1)
        targetUsers == IF Len(matched) = 0
                       THEN <<[demographic |-> "general", likelihood |-> "medium"]>>
                       ELSE matched
        successProbability == IF voteCount >= 100 THEN "high"
                              ELSE IF voteCount < 20 THEN "low"
                              ELSE "medium"
    IN  [productName |-> product.name,
         targetUsers |-> targetUsers,
         successProbability |-> successProbability,
         summary |-> ToString(voteCount) \o " votes, for " \o targetUsers[1].demographic,
         marketInsights |-> "rule-based",
         userPersonas |-> [n \in 1..(IF Len(targetUsers) < 3 THEN Len(targetUsers) ELSE 3)
                              |-> targetUsers[n].demographic],
         fallback |-> TRUE]

\* ChatGPTService.createFallbackAnalysis: rule-based result, no error field.
\* A vote count or a topic list the product lacks counts as 0 and as empty.
\* The labels stand for the texts of the code: "high", "medium" and "low"
\* for the three probability characters, the demographic names for the six
\* demographic texts.
createFallbackAnalysis(product) ==
    LET voteCount == IF "votesCount" \in DOMAIN product THEN product.votesCount ELSE 0
        topics == IF "topics" \in DOMAIN product THEN product.topics ELSE <<>>
        matched == FallbackTargetUsers(topics, 1)
        targetUsers == IF Len(matched) = 0
                       THEN <<[demographic |-> "general", likelihood |-> "medium"]>>
                       ELSE matched
        successProbability == IF voteCount > 100 THEN "high"
                              ELSE IF voteCount < 20 THEN "low"
                              ELSE "medium"
    IN  [productName |-> product.name,
         targetUsers |-> targetUsers,
         successProbability |-> successProbability,
         summary |-> ToString(voteCount) \o " votes, for " \o targetUsers[1].demographic,
         marketInsights |-> "rule-based",
         userPersonas |-> [n \in 1..(IF Len(targetUsers) < 3 THEN Len(targetUsers) ELSE 3)
                              |-> targetUsers[n].demographic],
         fallback |-> TRUE]

\* No completion call is made.
NoCompletion == [kind |-> "none"]

\* Variant: no early return when the client is missing; the call on the
\* missing client throws and the catch block answers with an error analysis.
analyzeProduct_NoEarlyReturn(product, hasOpenai, completion) ==
    IF ~hasOpenai
    THEN [error |-> "Cannot read properties of null (reading 'chat')",
          targetUsers |-> <<[demographic |-> "Analysis failed", likelihood |-> "unknown"]>>,
          successProbability |-> "unknown",
          summary |-> "Analysis unavailable due to API error"]
    ELSE CASE completion.kind = "json" ->
                [productName |-> product.name,
                 summary |-> completion.summary,
                 metadata |-> [productId |-> product.id, productName |-> product.name]]
           [] completion.kind = "text" ->
                [error |-> "Failed to parse structured response",
                 rawResponse |-> "text",
                 summary |-> "Analysis completed but response format was invalid",
                 metadata |-> [productId |-> product.id, productName |-> product.name]]
           [] completion.kind = "error" ->
                [error |-> completion.message,
                 targetUsers |-> <<[demographic |-> "Analysis failed", likelihood |-> "unknown"]>>,
                 successProbability |-> "unknown",
                 summary |-> "Analysis unavailable due to API error"]

\* ChatGPTService.analyzeProduct: the value the returned promise resolves with.
analyzeProduct(product, hasOpenai, completion) ==
    IF ~hasOpenai
    THEN createFallbackAnalysis(product)
    ELSE CASE completion.kind = "json" ->
                [productName |-> product.name,
                 summary |-> completion.summary,
                 metadata |-> [productId |-> product.id, productName |-> product.name]]
           [] completion.kind = "text" ->
                [error |-> "Failed to parse structured response",
                 rawResponse |-> "text",
                 summary |-> "Analysis completed but response format was invalid",
                 metadata |-> [productId |-> product.id, productName |-> product.name]]
           [] completion.kind = "error" ->
                [error |-> completion.message,
                 targetUsers |-> <<[demographic |-> "Analysis failed", likelihood |-> "unknown"]>>,
                 successProbability |-> "unknown",
                 summary |-> "Analysis unavailable due to API error"]

\* One call of analyzeProduct(product), from the first attempt of the
\* external completion call to the value the call resolves with.

\* maxRetries of ChatGPTService
AnalyzerMaxRetries == 3

\* No call yet.
IdleCall ==
    [pc |-> "idle", product |-> null, retryCount |-> 0, attempts |-> <<>>,
     result |-> null]

\* Vote counts on both sides of the two thresholds, and topic lists that
\* match none, one, the same, three, four and five of the categories.
VoteInputs == {0, 19, 20, 21, 100, 101}

TopicLists ==
    {<<>>, <<"Health">>, <<"Developer Tools">>, <<"Fintech">>, <<"Productivity">>,
     <<"Design Tools">>, <<"AI">>, <<"Email">>, <<"Machine Learning">>,
     <<"Marketing">>, <<"Social Media">>, <<"Email", "AI">>,
     <<"Health", "Marketing", "Social Media">>,
     <<"Fintech", "Design Tools", "Marketing">>,
     <<"Developer Tools", "Productivity", "Design Tools", "AI">>,
     <<"AI", "Marketing", "Design Tools", "Productivity", "Developer Tools">>}

\* Products an analyzeProduct call is given; a product can lack its vote
\* count or its topics.
CallProducts ==
    {[id |-> "P", name |-> "P", votesCount |-> v, topics |-> t] :
        v \in VoteInputs, t \in TopicLists}
        \cup {[id |-> "P", name |-> "P", topics |-> t] : t \in TopicLists}
        \cup {[id |-> "P", name |-> "P", votesCount |-> v] : v \in VoteInputs}

\* The products of the calls that reach the external completion call.
CompletionProducts ==
    {product \in CallProducts :
        /\ "votesCount" \in DOMAIN product /\ product.votesCount = 101
        /\ "topics" \in DOMAIN product /\ product.topics = <<"AI">>}

\* What one attempt can end with: a completion whose content parses, one
\* whose content does not, one the code after the call trips over (no
\* choices, or the content "null"), an error of the API with a status, or a
\* failure of the connection with a code.
CompletionOutcomes ==
    {[kind |-> "json", summary |-> "s1"], [kind |-> "text"],
     [kind |-> "malformed",
      message |-> "Cannot set properties of null (setting 'metadata')"]}
        \cup [kind : {"api"}, status : {401, 429, 500}]
        \cup [kind : {"network"}, code : {"ECONNRESET", "ETIMEDOUT", "ENOTFOUND"}]

\* error.message of a failed attempt
ErrorMessage(outcome) ==
    CASE outcome.kind = "api" -> "status " \o ToString(outcome.status)
      [] outcome.kind = "network" -> outcome.code
      [] OTHER -> outcome.message

\* ChatGPTService.shouldRetry(error)
ChatGPTService_shouldRetry(outcome) ==
    CASE outcome.kind = "api" ->
            outcome.status = 429 \/ (outcome.status >= 500 /\ outcome.status < 600)
      [] outcome.kind = "network" -> outcome.code \in {"ECONNRESET", "ETIMEDOUT"}
      [] OTHER -> FALSE

\* ----------------------------------------------------------- listing source
\* ProductHuntService (the later definition in the file): one call of
\* getTrendingProducts(accessToken, limit), from the first GraphQL request to
\* the value the call resolves with.

\* maxRetries of the service
MaxRetries == 3

\* The limits the two handlers pass.
StreamLimit == 10
QuickLimit == 3
Limits == {QuickLimit, StreamLimit}

\* No call yet.
IdleListing ==
    [pc |-> "idle", limit |-> 0, first |-> 0, retryCount |-> 0, http |-> <<>>,
     source |-> "none", result |-> <<>>]

\* Posts as the APIs deliver them: an id, a vote count that is not in rank
\* order and that some posts lack, and whether createdAt or featuredAt falls
\* on today.
VotesOfPost(k) == ((k * 7) % 5) * 40 + k

\* post.votesCount || 0
VotesOrZero(post) == IF "votesCount" \in DOMAIN post THEN post.votesCount ELSE 0

TodayPatterns == {"none", "all", "odd"}

Post(k, pattern) ==
    LET today == CASE pattern = "none" -> FALSE
                   [] pattern = "all" -> TRUE
                   [] OTHER -> k % 2 = 1
    IN  IF k % 6 = 3
        THEN [id |-> k, today |-> today]
        ELSE [id |-> k, votesCount |-> VotesOfPost(k), today |-> today]

PostLists ==
    {[k \in 1..n |-> Post(k, pattern)] : n \in 0..MaxPosts, pattern \in TodayPatterns}

\* What an HTTP request can be answered with: a failure below HTTP, or a
\* status with a body that carries errors, posts, or neither.
NetworkFailures == {[kind |-> "network", code |-> c] : c \in {"ECONNRESET", "ETIMEDOUT", "ENOTFOUND"}}

GraphQLAnswers ==
    NetworkFailures
        \cup {[kind |-> "http", status |-> st, body |-> [kind |-> "errors"]] :
                 st \in {200, 401, 403, 429}}
        \cup {[kind |-> "http", status |-> st, body |-> [kind |-> "other"]] :
                 st \in {200, 429, 503}}
        \cup {[kind |-> "http", status |-> 200, body |-> [kind |-> "posts", posts |-> ps]] :
                 ps \in PostLists}

RESTAnswers ==
    NetworkFailures
        \cup {[kind |-> "http", status |-> st, body |-> [kind |-> "other"]] :
                 st \in {200, 401, 429, 503}}
        \cup {[kind |-> "http", status |-> 200, body |-> [kind |-> "posts", posts |-> ps]] :
                 ps \in PostLists}

\* axios.post with validateStatus: status < 500 resolves, all else rejects.
GraphQLResolves(answer) == answer.kind = "http" /\ answer.status < 500

\* axios.get with the default validateStatus: 2xx resolves.
RESTResolves(answer) ==
    answer.kind = "http" /\ answer.status >= 200 /\ answer.status < 300

\* Variant: every rejected request counts as retryable.
shouldRetry_AnyFailure(answer) == TRUE

\* shouldRetry(error) for the error of a rejected axios request.
shouldRetry(answer) ==
    IF answer.kind = "http"
    THEN answer.status = 429 \/ (answer.status >= 500 /\ answer.status < 600)
    ELSE answer.code \in {"ECONNRESET", "ETIMEDOUT"}

\* array.slice(0, n)
Slice(seq, n) == SubSeq(seq, 1, IF n < Len(seq) THEN n ELSE Len(seq))

\* array.sort((a, b) => b.votesCount - a.votesCount): stable, most votes first.
RECURSIVE InsertByVotes(_, _)
InsertByVotes(sorted, post) ==
    IF sorted = <<>> THEN <<post>>
    ELSE IF VotesOrZero(Head(sorted)) >= VotesOrZero(post)
         THEN <<Head(sorted)>> \o InsertByVotes(Tail(sorted), post)
         ELSE <<post>> \o sorted

RECURSIVE SortByVotes(_)
SortByVotes(posts) ==
    IF posts = <<>> THEN <<>>
    ELSE InsertByVotes(SortByVotes(SubSeq(posts, 1, Len(posts) - 1)), posts[Len(posts)])

\* votesCount: post.votesCount
transformProduct(post) ==
    IF "votesCount" \in DOMAIN post
    THEN [id |-> post.id, votesCount |-> post.votesCount, api |-> "graphql"]
    ELSE [id |-> post.id, api |-> "graphql"]

\* votesCount: post.votes_count || 0
transformRESTProduct(post) ==
    [id |-> post.id, votesCount |-> VotesOrZero(post), api |-> "rest"]

\* What getTrendingProducts makes of the posts of a GraphQL answer: today's
\* launches by votes, cut to the limit, or else the first posts as delivered.
GraphQLProducts_NoSlice(posts, limit) ==
    LET todaysProducts == SortByVotes(SelectSeq(posts, LAMBDA post : post.today))
        limitedProducts == todaysProducts
    IN  IF Len(limitedProducts) > 0
        THEN [k \in 1..Len(limitedProducts) |-> transformProduct(limitedProducts[k])]
        ELSE [k \in 1..Len(Slice(posts, limit)) |-> transformProduct(posts[k])]

\* Variant: today's launches are cut to the limit as delivered, unsorted.
GraphQLProducts_Unsorted(posts, limit) ==
    LET todaysProducts == SelectSeq(posts, LAMBDA post : post.today)
        limitedProducts == Slice(todaysProducts, limit)
    IN  IF Len(limitedProducts) > 0
        THEN [k \in 1..Len(limitedProducts) |-> transformProduct(limitedProducts[k])]
        ELSE [k \in 1..Len(Slice(posts, limit)) |-> transformProduct(posts[k])]

GraphQLProducts(posts, limit) ==
    LET todaysProducts == SortByVotes(SelectSeq(posts, LAMBDA post : post.today))
        limitedProducts == Slice(todaysProducts, limit)
    IN  IF Len(limitedProducts) > 0
        THEN [k \in 1..Len(limitedProducts) |-> transformProduct(limitedProducts[k])]
        ELSE [k \in 1..Len(Slice(posts, limit)) |-> transformProduct(posts[k])]

\* getTrendingProductsREST: the transformed posts, cut to the limit.
RESTProducts(posts, limit) ==
    Slice([k \in 1..Len(posts) |-> transformRESTProduct(posts[k])], limit)

\* getMockProducts: three fixed products, more up to the limit and to 20,
\* cut to the limit.
getMockProducts(limit) ==
    LET last == IF limit < 20 THEN limit ELSE 20
        mockProducts == [k \in 1..3 |-> [id |-> k, votesCount |-> 1500 - 300 * k,
                                         api |-> "mock"]]
        additionalProducts == [k \in 1..(IF last >= 4 THEN last - 3 ELSE 0) |->
                                  [id |-> k + 3, votesCount |-> 100, api |-> "mock"]]
    IN  Slice(mockProducts \o additionalProducts, limit)

\* ------------------------------------------------------- credential provider
\* AuthService: its construction from the environment, the token file, and
\* one getStoredToken call at a time.

\* A string value of JavaScript, next to null.
Str(x) == [string |-> x]

\* Before the module is loaded.
NoAuthService ==
    [pc |-> "unconstructed", developerToken |-> null, client |-> FALSE,
     file |-> [kind |-> "missing"], token |-> null, refreshed |-> null,
     result |-> null, path |-> <<>>]

\* process.env as the constructor reads it: the developer token is unset, the
\* placeholder of the sample configuration, or a token; the OAuth client id
\* and secret are both configured or not.
AuthEnvironments ==
    [PH_DEVELOPER_TOKEN : {"unset", "your_developer_token", "dev-token"},
     oauthConfigured : BOOLEAN]

\* The token file as readFile and JSON.parse find it: missing (ENOENT),
\* unreadable (another error), not JSON, or a token as storeToken writes it,
\* whose expires_at is absent, not after now, or after now.
TokenFiles ==
    {[kind |-> "missing"], [kind |-> "unreadable"], [kind |-> "garbage"]}
        \cup [kind : {"token"}, access_token : {"t1"},
              expires_at : {"none", "past", "future"}]

\* token.expires_at && new Date(token.expires_at) <= new Date()
IsExpired(token) == token.expires_at = "past"

\* The token accessToken.refresh() resolves with.
RefreshedToken == [kind |-> "token", access_token |-> "t2", expires_at |-> "future"]

\* ------------------------------------------------------- environment check
\* InternalAuthMiddleware.checkEnvironment, registered before every route.

\* Before the process is started.
NoProcess ==
    [pc |-> "unstarted", NODE_ENV |-> "unset", ALLOWED_DOMAINS |-> null,
     request |-> null, status |-> 0, reached |-> "none"]

\* ALLOWED_DOMAINS is unset (null here) or a string, written as its
\* comma-separated fields: <<"">> is the empty string, and a field keeps its
\* blanks.
AllowedDomainsValues ==
    {null} \cup {[fields |-> f] : f \in {<<"">>, <<"a.example">>,
                                         <<"a.example", "b.example">>,
                                         <<"a.example", " b.example">>}}

NodeEnvValues == {"unset", "development", "production"}

\* The Host header of a request; "absent" when the request carries none.
Hosts == {"a.example", "b.example", "evil.example", "absent"}

\* The routes of the application a request can ask for.
Routes ==
    {"GET /api/analyze-stream", "POST /api/quick-analyze",
     "GET /api/latest-results", "GET /health"}

\* process.env.ALLOWED_DOMAINS ? process.env.ALLOWED_DOMAINS.split(',') : []
allowedDomains(value) ==
    IF value = null \/ value.fields = <<"">> THEN <<>> ELSE value.fields

\* allowedDomains.includes(host)
DomainsInclude(domains, host) ==
    \E k \in 1..Len(domains) : host # "absent" /\ domains[k] = host

\* ------------------------------------------------------------------ handler
\* The timers of the handler, in milliseconds.
FetchCeiling == 15000
ItemCeiling == 8000
ItemDelay == 200

\* The overall budget of a run the documentation states, in milliseconds.
OverallBudget == 25000

\* How long a fetch that beats its ceiling takes, and how long an analysis.
FetchDurations == {0, 14000}
AnalysisDurations == {7000}

\* Variant: the promise is created but not handed to a race, so nothing
\* handles its rejection.
Raced_Unsubscribed(what, item) == [what |-> what, item |-> item, handled |-> FALSE]

\* A promise handed to Promise.race: race subscribes to every input, so each
\* input has a rejection handler whether it wins or loses.
Raced(what, item) == [what |-> what, item |-> item, handled |-> TRUE]

Requests == 1..NumRequests

\* A request that has not arrived yet.
IdleRequest ==
    [kind |-> "none", pc |-> "idle", products |-> <<>>, i |-> 0,
     analyzedProducts |-> <<>>, successCount |-> 0, errorCount |-> 0,
     events |-> <<>>, endCalls |-> 0, responses |-> <<>>,
     fetched |-> <<>>, outcome |-> [kind |-> "pending"], slotAtStart |-> null]

\* The last step sent no response of /api/latest-results.
NoResponse == [status |-> 0]

Init ==
    /\ openai \in BOOLEAN
    /\ pc = "idle"
    /\ accessToken = ""
    /\ products = <<>>
    /\ i = 0
    /\ analyzedProducts = <<>>
    /\ successCount = 0
    /\ errorCount = 0
    /\ events = <<>>
    /\ endCalls = 0
    /\ closedAt = -1
    /\ latestAnalysisResults = null
    /\ tokenLog = "pending"
    /\ fetchLog = [kind |-> "pending"]
    /\ raceLog = <<>>
    /\ lateFetch = [kind |-> "none"]
    /\ delaysElapsed = 0
    /\ requests = [r \in Requests |-> IdleRequest]
    /\ lastRead = NoResponse
    /\ lastComplete = null
    /\ abandoned = {}
    /\ elapsed = 0
    /\ clientClosed = FALSE
    /\ exited = FALSE
    /\ listing = IdleListing
    /\ call = IdleCall
    /\ auth = NoAuthService
    /\ gate = NoProcess

\* Variant: the progress counter is the 0-based loop index.
ProgressData_ZeroBased(ps, k) ==
    [current |-> k,
     total |-> Len(ps),
     product |-> ps[k + 1].name,
     message |-> "Analyzing " \o ps[k + 1].name \o "..."]

\* progress event of the item at 0-based index k of list ps
ProgressData(ps, k) ==
    [current |-> k + 1,
     total |-> Len(ps),
     product |-> ps[k + 1].name,
     message |-> "Analyzing " \o ps[k + 1].name \o "..."]

\* Variant: nothing is sent before the credential is looked up.
StartRun_NoInit ==
    /\ pc = "idle"
    /\ events' = events
    /\ pc' = "auth"
    /\ UNCHANGED <<openai, accessToken, products, i, analyzedProducts, successCount,
                   errorCount, endCalls, closedAt, latestAnalysisResults, tokenLog, fetchLog,
                   raceLog,
                   lateFetch, delaysElapsed, lastComplete, serverVars, listing, partVars,
                   envVars, abandoned, elapsed>>

\* The request arrives: headers are written, status(init) is sent and the
\* handler suspends on getStoredToken().
StartRun ==
    /\ pc = "idle"
    /\ events' = sendEvent(events, "status",
                           [message |-> "Starting analysis...", step |-> "init"])
    /\ pc' = "auth"
    /\ UNCHANGED <<openai, accessToken, products, i, analyzedProducts, successCount,
                   errorCount, endCalls, closedAt, latestAnalysisResults, tokenLog, fetchLog,
                   raceLog,
                   lateFetch, delaysElapsed, lastComplete, serverVars, listing, partVars,
                   envVars, abandoned, elapsed>>

\* Variant: the early return is missing, the handler goes on to the fetch.
TokenAbsent_NoReturn ==
    /\ pc = "auth"
    /\ tokenLog' = "absent"
    /\ accessToken' = ""
    /\ events' = sendEvent(
           sendEvent(events, "error",
               [message |-> "Authentication required. Please set up API credentials."]),
           "status", [message |-> "Fetching trending products...", step |-> "fetch"])
    /\ pc' = "fetching"
    /\ UNCHANGED <<openai, products, i, analyzedProducts, successCount, errorCount,
                   endCalls, closedAt, latestAnalysisResults, fetchLog, raceLog,
                   lateFetch, delaysElapsed, lastComplete, serverVars, listing, partVars,
                   envVars, abandoned, elapsed>>

\* Variant: res.end() is called before the error event is written.
TokenAbsent_EndsFirst ==
    /\ pc = "auth"
    /\ tokenLog' = "absent"
    /\ accessToken' = ""
    /\ events' = sendEvent(events, "error",
           [message |-> "Authentication required. Please set up API credentials."])
    /\ endCalls' = endCalls + 2
    /\ closedAt' = FirstEnd(closedAt, Len(events))
    /\ pc' = "done"
    /\ UNCHANGED <<openai, products, i, analyzedProducts, successCount, errorCount,
                   latestAnalysisResults, fetchLog, raceLog,
                   lateFetch, delaysElapsed, lastComplete, serverVars, listing, partVars,
                   envVars, abandoned, elapsed>>

\* getStoredToken() resolved with null: error event, return res.end(), and
\* the finally block calls res.end() once more.
TokenAbsent ==
    /\ pc = "auth"
    /\ tokenLog' = "absent"
    /\ accessToken' = ""
    /\ events' = sendEvent(events, "error",
           [message |-> "Authentication required. Please set up API credentials."])
    /\ endCalls' = endCalls + 2
    /\ closedAt' = FirstEnd(closedAt, Len(events'))
    /\ pc' = "done"
    /\ UNCHANGED <<openai, products, i, analyzedProducts, successCount, errorCount,
                   latestAnalysisResults, fetchLog, raceLog,
                   lateFetch, delaysElapsed, lastComplete, serverVars, listing, partVars,
                   envVars, abandoned, elapsed>>

\* Variant: the fetch phase is not announced.
TokenPresent_NoStatus ==
    /\ pc = "auth"
    /\ tokenLog' = "present"
    /\ accessToken' = "token"
    /\ events' = events
    /\ pc' = "fetching"
    /\ UNCHANGED <<openai, products, i, analyzedProducts, successCount, errorCount,
                   endCalls, closedAt, latestAnalysisResults, fetchLog, raceLog,
                   lateFetch, delaysElapsed, lastComplete, serverVars, listing, partVars,
                   envVars, abandoned, elapsed>>

\* getStoredToken() resolved with a token: status(fetch), then the fetch race.
TokenPresent ==
    /\ pc = "auth"
    /\ tokenLog' = "present"
    /\ accessToken' = "token"
    /\ events' = sendEvent(events, "status",
           [message |-> "Fetching trending products...", step |-> "fetch"])
    /\ pc' = "fetching"
    /\ UNCHANGED <<openai, products, i, analyzedProducts, successCount, errorCount,
                   endCalls, closedAt, latestAnalysisResults, fetchLog, raceLog,
                   lateFetch, delaysElapsed, lastComplete, serverVars, listing, partVars,
                   envVars, abandoned, elapsed>>

\* Variant: there is no finally block, the outer catch leaves the response open.
CatchOuter_NoEnd(message) ==
    /\ events' = sendEvent(events, "error", [message |-> message])
    /\ endCalls' = endCalls
    /\ closedAt' = closedAt
    /\ pc' = "done"

\* The outer catch and finally of the handler: error event, res.end().
CatchOuter(message) ==
    /\ events' = sendEvent(events, "error", [message |-> message])
    /\ endCalls' = endCalls + 1
    /\ closedAt' = FirstEnd(closedAt, Len(events'))
    /\ pc' = "done"

\* The 15000 ms timer rejects before getTrendingProducts settles.
FetchTimeout ==
    /\ pc = "fetching"
    /\ fetchLog' = [kind |-> "timeout"]
    /\ CatchOuter("Fetch timeout")
    /\ elapsed' = elapsed + FetchCeiling
    /\ UNCHANGED <<openai, accessToken, products, i, analyzedProducts, successCount,
                   errorCount, latestAnalysisResults, tokenLog, raceLog,
                   lateFetch, delaysElapsed, lastComplete, serverVars, listing, partVars,
                   envVars, abandoned>>

\* getTrendingProducts rejects before the timer.
FetchRejects ==
    /\ pc = "fetching"
    /\ \E message \in FetchErrors :
        /\ fetchLog' = [kind |-> "rejected", message |-> message]
        /\ CatchOuter(message)
    /\ abandoned' = abandoned \cup {Raced("fetchTimer", 0)}
    /\ \E d \in FetchDurations : elapsed' = elapsed + d
    /\ UNCHANGED <<openai, accessToken, products, i, analyzedProducts, successCount,
                   errorCount, latestAnalysisResults, tokenLog, raceLog,
                   lateFetch, delaysElapsed, lastComplete, serverVars, listing, partVars,
                   envVars>>

\* Variant: the handler had awaited the fetch itself, so a list that arrives
\* after the ceiling is analysed all the same.
LateFetchResolves_Used ==
    /\ pc = "done"
    /\ fetchLog.kind = "timeout"
    /\ lateFetch.kind = "none"
    /\ \E list \in ItemLists \ {<<>>} :
        /\ lateFetch' = [kind |-> "resolved", list |-> list]
        /\ products' = list
        /\ events' = sendEvent(events, "progress", ProgressData(list, 0))
    /\ i' = 0
    /\ pc' = "analyzing"
    /\ UNCHANGED <<openai, accessToken, analyzedProducts, successCount, errorCount,
                   endCalls, closedAt, latestAnalysisResults, tokenLog, fetchLog, raceLog,
                   delaysElapsed, lastComplete, serverVars, listing, partVars,
                   envVars, abandoned, elapsed>>

\* getTrendingProducts resolves after the 15000 ms timer has decided the
\* race: Promise.race has settled already, the value goes nowhere.
LateFetchResolves ==
    /\ pc = "done"
    /\ fetchLog.kind = "timeout"
    /\ lateFetch.kind = "none"
    /\ \E list \in ItemLists :
        lateFetch' = [kind |-> "resolved", list |-> list]
    /\ UNCHANGED <<openai, pc, accessToken, products, i, analyzedProducts,
                   successCount, errorCount, events, endCalls, closedAt, latestAnalysisResults,
                   tokenLog, fetchLog, raceLog, delaysElapsed, lastComplete,
                   serverVars, listing, partVars,
                   envVars, abandoned, elapsed>>

\* Variant: the emptiness check is missing; the loop runs zero times and the
\* handler completes with an empty summary.
FetchEmpty_NoCheck ==
    /\ pc = "fetching"
    /\ fetchLog' = [kind |-> "resolved", list |-> <<>>]
    /\ products' = <<>>
    /\ events' = sendEvent(
           sendEvent(events, "status",
               [message |-> "Found 0 products. Starting analysis...",
                step |-> "analyze", total |-> 0]),
           "complete",
           [totalProducts |-> 0, successCount |-> 0, errorCount |-> 0,
            products |-> <<>>])
    /\ endCalls' = endCalls + 1
    /\ closedAt' = FirstEnd(closedAt, Len(events'))
    /\ pc' = "done"
    /\ abandoned' = abandoned \cup {Raced("fetchTimer", 0)}
    /\ \E d \in FetchDurations : elapsed' = elapsed + d
    /\ UNCHANGED <<openai, accessToken, i, analyzedProducts, successCount, errorCount,
                   latestAnalysisResults, tokenLog, raceLog,
                   lateFetch, delaysElapsed, lastComplete, serverVars, listing, partVars,
                   envVars>>

\* Variant: the return after the error event is missing; the loop runs zero
\* times and the handler goes on to complete.
FetchEmpty_NoReturn ==
    /\ pc = "fetching"
    /\ fetchLog' = [kind |-> "resolved", list |-> <<>>]
    /\ products' = <<>>
    /\ events' = sendEvent(
           sendEvent(
               sendEvent(events, "error", [message |-> "No trending products found"]),
               "status",
               [message |-> "Found 0 products. Starting analysis...",
                step |-> "analyze", total |-> 0]),
           "complete",
           [totalProducts |-> 0, successCount |-> 0, errorCount |-> 0,
            products |-> <<>>])
    /\ endCalls' = endCalls + 1
    /\ closedAt' = FirstEnd(closedAt, Len(events'))
    /\ pc' = "done"
    /\ abandoned' = abandoned \cup {Raced("fetchTimer", 0)}
    /\ \E d \in FetchDurations : elapsed' = elapsed + d
    /\ UNCHANGED <<openai, accessToken, i, analyzedProducts, successCount, errorCount,
                   latestAnalysisResults, tokenLog, raceLog,
                   lateFetch, delaysElapsed, lastComplete, serverVars, listing, partVars,
                   envVars>>

\* getTrendingProducts resolves with an empty list.
FetchEmpty ==
    /\ pc = "fetching"
    /\ fetchLog' = [kind |-> "resolved", list |-> <<>>]
    /\ products' = <<>>
    /\ events' = sendEvent(events, "error", [message |-> "No trending products found"])
    /\ endCalls' = endCalls + 2
    /\ closedAt' = FirstEnd(closedAt, Len(events'))
    /\ pc' = "done"
    /\ abandoned' = abandoned \cup {Raced("fetchTimer", 0)}
    /\ \E d \in FetchDurations : elapsed' = elapsed + d
    /\ UNCHANGED <<openai, accessToken, i, analyzedProducts, successCount, errorCount,
                   latestAnalysisResults, tokenLog, raceLog,
                   lateFetch, delaysElapsed, lastComplete, serverVars, listing, partVars,
                   envVars>>

\* getTrendingProducts resolves with items: status(analyze), the locals are
\* initialised, the loop is entered and the first progress event is sent;
\* the handler suspends on the race of the first item.
FetchItems ==
    /\ pc = "fetching"
    /\ \E list \in ItemLists \ {<<>>} :
        /\ fetchLog' = [kind |-> "resolved", list |-> list]
        /\ products' = list
        /\ events' = sendEvent(
               sendEvent(events, "status",
                   [message |-> "Found " \o ToString(Len(list))
                                   \o " products. Starting analysis...",
                    step |-> "analyze",
                    total |-> Len(list)]),
               "progress", ProgressData(list, 0))
    /\ analyzedProducts' = <<>>
    /\ successCount' = 0
    /\ errorCount' = 0
    /\ i' = 0
    /\ pc' = "analyzing"
    /\ abandoned' = abandoned \cup {Raced("fetchTimer", 0)}
    /\ \E d \in FetchDurations : elapsed' = elapsed + d
    /\ UNCHANGED <<openai, accessToken, endCalls, closedAt, latestAnalysisResults, tokenLog,
                   raceLog,
                   lateFetch, delaysElapsed, lastComplete, serverVars, listing, partVars,
                   envVars>>

\* Variant: the catch block increments the wrong counter.
CatchItem_CountsSuccess(message) ==
    LET errorProduct == WithAnalysis(products[i + 1], [error |-> message])
    IN  /\ analyzedProducts' = Append(analyzedProducts, errorProduct)
        /\ errorCount' = errorCount
        /\ successCount' = successCount + 1
        /\ events' = sendEvent(events, "product", errorProduct)
        /\ pc' = "delay"

\* Variant: the catch block does not record the failed product.
CatchItem_NoPush(message) ==
    LET errorProduct == WithAnalysis(products[i + 1], [error |-> message])
    IN  /\ analyzedProducts' = analyzedProducts
        /\ errorCount' = errorCount + 1
        /\ successCount' = successCount
        /\ events' = sendEvent(events, "product", errorProduct)
        /\ pc' = "delay"

\* Variant: the catch block puts the failed product at the front of the list.
CatchItem_Unshift(message) ==
    LET errorProduct == WithAnalysis(products[i + 1], [error |-> message])
    IN  /\ analyzedProducts' = <<errorProduct>> \o analyzedProducts
        /\ errorCount' = errorCount + 1
        /\ successCount' = successCount
        /\ events' = sendEvent(events, "product", errorProduct)
        /\ pc' = "delay"

\* The catch block of the item loop: a failure analysis carrying the message.
CatchItem(message) ==
    LET errorProduct == WithAnalysis(products[i + 1], [error |-> message])
    IN  /\ analyzedProducts' = Append(analyzedProducts, errorProduct)
        /\ errorCount' = errorCount + 1
        /\ successCount' = successCount
        /\ events' = sendEvent(events, "product", errorProduct)
        /\ pc' = "delay"

\* Without a client analyzeProduct returns the rule-based analysis before its
\* first await, so its promise is already resolved when the race starts: the
\* 8000 ms timer cannot win and nothing can reject.
FallbackResolves ==
    /\ pc = "analyzing"
    /\ ~openai
    /\ LET analysis == analyzeProduct(products[i + 1], openai, NoCompletion)
           analyzedProduct == WithAnalysis(products[i + 1], analysis)
       IN  /\ raceLog' = Append(raceLog, [kind |-> "resolved", analysis |-> analysis])
           /\ analyzedProducts' = Append(analyzedProducts, analyzedProduct)
           /\ successCount' = successCount + 1
           /\ errorCount' = errorCount
           /\ events' = sendEvent(events, "product", analyzedProduct)
           /\ pc' = "delay"
    /\ abandoned' = abandoned \cup {Raced("timer", i + 1)}
    /\ UNCHANGED <<openai, accessToken, products, i, endCalls, closedAt, latestAnalysisResults,
                   tokenLog, fetchLog,
                   lateFetch, delaysElapsed, lastComplete, serverVars, listing, partVars,
                   envVars, elapsed>>

\* With a client: analyzeProduct resolves before the 8000 ms timer.
AnalyzerResolves ==
    /\ pc = "analyzing"
    /\ openai
    /\ \E completion \in Completions :
        LET analysis == analyzeProduct(products[i + 1], openai, completion)
            analyzedProduct == WithAnalysis(products[i + 1], analysis)
        IN  /\ raceLog' = Append(raceLog, [kind |-> "resolved", analysis |-> analysis])
            /\ analyzedProducts' = Append(analyzedProducts, analyzedProduct)
            /\ successCount' = successCount + 1
            /\ errorCount' = errorCount
            /\ events' = sendEvent(events, "product", analyzedProduct)
            /\ pc' = "delay"
    /\ abandoned' = abandoned \cup {Raced("timer", i + 1)}
    /\ \E d \in AnalysisDurations : elapsed' = elapsed + d
    /\ UNCHANGED <<openai, accessToken, products, i, endCalls, closedAt, latestAnalysisResults,
                   tokenLog, fetchLog,
                   lateFetch, delaysElapsed, lastComplete, serverVars, listing, partVars,
                   envVars>>

\* Variant: no try/catch around the item; the rejection reaches the outer catch.
AnalyzerRejects_Fatal ==
    /\ pc = "analyzing"
    /\ openai
    /\ \E message \in AnalyzerErrors :
        /\ raceLog' = Append(raceLog, [kind |-> "rejected", message |-> message])
        /\ CatchOuter(message)
    /\ abandoned' = abandoned \cup {Raced("timer", i + 1)}
    /\ \E d \in AnalysisDurations : elapsed' = elapsed + d
    /\ UNCHANGED <<openai, accessToken, products, i, analyzedProducts, successCount,
                   errorCount, latestAnalysisResults, tokenLog, fetchLog,
                   lateFetch, delaysElapsed, lastComplete, serverVars, listing, partVars,
                   envVars>>

\* The promise of the analyzer rejects before the timer.
AnalyzerRejects ==
    /\ pc = "analyzing"
    /\ openai
    /\ \E message \in AnalyzerErrors :
        /\ raceLog' = Append(raceLog, [kind |-> "rejected", message |-> message])
        /\ CatchItem(message)
    /\ abandoned' = abandoned \cup {Raced("timer", i + 1)}
    /\ \E d \in AnalysisDurations : elapsed' = elapsed + d
    /\ UNCHANGED <<openai, accessToken, products, i, endCalls, closedAt, latestAnalysisResults,
                   tokenLog, fetchLog,
                   lateFetch, delaysElapsed, lastComplete, serverVars, listing, partVars,
                   envVars>>

\* Variant: no try/catch around the item; the timeout reaches the outer catch.
AnalysisTimeout_Fatal ==
    /\ pc = "analyzing"
    /\ openai
    /\ raceLog' = Append(raceLog, [kind |-> "timeout"])
    /\ CatchOuter("Analysis timeout")
    /\ abandoned' = abandoned \cup {Raced("call", i + 1)}
    /\ elapsed' = elapsed + ItemCeiling
    /\ UNCHANGED <<openai, accessToken, products, i, analyzedProducts, successCount,
                   errorCount, latestAnalysisResults, tokenLog, fetchLog,
                   lateFetch, delaysElapsed, lastComplete, serverVars, listing, partVars,
                   envVars>>

\* Variant: the delay is skipped after the final item; when the last item
\* times out, the handler goes straight on to complete.
AnalysisTimeout_SkipLastDelay ==
    /\ pc = "analyzing"
    /\ openai
    /\ raceLog' = Append(raceLog, [kind |-> "timeout"])
    /\ LET errorProduct == WithAnalysis(products[i + 1], [error |-> "Analysis timeout"])
           all == Append(analyzedProducts, errorProduct)
           final == [totalProducts |-> Len(all), successCount |-> successCount,
                     errorCount |-> errorCount + 1, products |-> all]
       IN  /\ analyzedProducts' = all
           /\ errorCount' = errorCount + 1
           /\ successCount' = successCount
           /\ IF i + 1 < Len(products)
              THEN /\ events' = sendEvent(events, "product", errorProduct)
                   /\ pc' = "delay"
                   /\ UNCHANGED <<i, endCalls, closedAt, latestAnalysisResults, lastComplete>>
              ELSE /\ events' = sendEvent(sendEvent(events, "product", errorProduct),
                                          "complete", final)
                   /\ i' = i + 1
                   /\ latestAnalysisResults' = final
                   /\ lastComplete' = final
                   /\ endCalls' = endCalls + 1
                   /\ closedAt' = FirstEnd(closedAt, Len(events'))
                   /\ pc' = "done"
    /\ abandoned' = abandoned \cup {Raced("call", i + 1)}
    /\ elapsed' = elapsed + ItemCeiling
    /\ UNCHANGED <<openai, accessToken, products, tokenLog, fetchLog, lateFetch,
                   delaysElapsed, serverVars, listing, partVars,
                   envVars>>

\* The 8000 ms timer rejects before analyzeProduct settles.
AnalysisTimeout ==
    /\ pc = "analyzing"
    /\ openai
    /\ raceLog' = Append(raceLog, [kind |-> "timeout"])
    /\ CatchItem("Analysis timeout")
    /\ abandoned' = abandoned \cup {Raced("call", i + 1)}
    /\ elapsed' = elapsed + ItemCeiling
    /\ UNCHANGED <<openai, accessToken, products, i, endCalls, closedAt, latestAnalysisResults,
                   tokenLog, fetchLog,
                   lateFetch, delaysElapsed, lastComplete, serverVars, listing, partVars,
                   envVars>>

\* Variant: the two counters are swapped in the summary.
FinalData_CountsSwapped ==
    [totalProducts |-> Len(analyzedProducts),
     successCount |-> errorCount,
     errorCount |-> successCount,
     products |-> analyzedProducts]

\* finalData of the handler
FinalData ==
    [totalProducts |-> Len(analyzedProducts),
     successCount |-> successCount,
     errorCount |-> errorCount,
     products |-> analyzedProducts]

\* The 200 ms delay after an item elapses and another item remains: i++,
\* progress event of the next item, suspend on its race.
NextItem ==
    /\ pc = "delay"
    /\ i + 1 < Len(products)
    /\ delaysElapsed' = delaysElapsed + 1
    /\ i' = i + 1
    /\ events' = sendEvent(events, "progress", ProgressData(products, i + 1))
    /\ pc' = "analyzing"
    /\ elapsed' = elapsed + ItemDelay
    /\ UNCHANGED <<openai, accessToken, products, analyzedProducts, successCount,
                   errorCount, endCalls, closedAt, latestAnalysisResults, tokenLog, fetchLog,
                   raceLog, lateFetch, lastComplete, serverVars, listing, partVars,
                   envVars, abandoned>>

\* Variant: the handler watches the connection and, when the client is
\* gone, ends the run without storing or sending the summary.
Complete_DropsWhenClosed ==
    /\ pc = "delay"
    /\ ~(i + 1 < Len(products))
    /\ delaysElapsed' = delaysElapsed + 1
    /\ i' = i + 1
    /\ latestAnalysisResults' = IF clientClosed THEN latestAnalysisResults ELSE FinalData
    /\ lastComplete' = IF clientClosed THEN lastComplete ELSE FinalData
    /\ events' = IF clientClosed THEN events ELSE sendEvent(events, "complete", FinalData)
    /\ endCalls' = endCalls + 1
    /\ closedAt' = FirstEnd(closedAt, Len(events'))
    /\ pc' = "done"
    /\ elapsed' = elapsed + ItemDelay
    /\ UNCHANGED <<openai, accessToken, products, analyzedProducts, successCount,
                   errorCount, tokenLog, fetchLog, raceLog, lateFetch, serverVars, listing, partVars,
                   envVars, abandoned>>

\* The 200 ms delay after the last item elapses: the loop ends, finalData is
\* stored and sent as the complete event, the finally block ends the response.
Complete ==
    /\ pc = "delay"
    /\ ~(i + 1 < Len(products))
    /\ delaysElapsed' = delaysElapsed + 1
    /\ i' = i + 1
    /\ latestAnalysisResults' = FinalData
    /\ lastComplete' = FinalData
    /\ events' = sendEvent(events, "complete", FinalData)
    /\ endCalls' = endCalls + 1
    /\ closedAt' = FirstEnd(closedAt, Len(events'))
    /\ pc' = "done"
    /\ elapsed' = elapsed + ItemDelay
    /\ UNCHANGED <<openai, accessToken, products, analyzedProducts, successCount,
                   errorCount, tokenLog, fetchLog, raceLog, lateFetch, serverVars, listing, partVars,
                   envVars, abandoned>>

Next ==
    \/ StartRun
    \/ TokenAbsent
    \/ TokenPresent
    \/ FetchTimeout
    \/ FetchRejects
    \/ LateFetchResolves
    \/ FetchEmpty
    \/ FetchItems
    \/ FallbackResolves
    \/ AnalyzerResolves
    \/ AnalyzerRejects
    \/ AnalysisTimeout
    \/ NextItem
    \/ Complete

Spec == Init /\ [][Next]_vars

\* The event loop runs every timer that is due and every continuation that is
\* ready (that of the already resolved analyzeProduct without a client
\* included); only the collaborators' promises may stay pending for ever.
FairSpec ==
    /\ Spec
    /\ WF_vars(FetchTimeout)
    /\ WF_vars(FallbackResolves)
    /\ WF_vars(AnalysisTimeout)
    /\ WF_vars(NextItem)
    /\ WF_vars(Complete)

\* ------------------------------------------------- the run in its process
\* What happens around the handler while it runs and after it has finished:
\* the promises its races left behind settle, the client goes away.

\* Everything the handler itself reads or writes.
handlerVars == <<openai, pc, accessToken, products, i, analyzedProducts,
                 successCount, errorCount, events, endCalls, closedAt, latestAnalysisResults,
                 tokenLog, fetchLog, raceLog, delaysElapsed, lastComplete, elapsed>>

\* process.on('unhandledRejection'): exits unless the message says
\* 'not configured'; none of the messages of the model does.
AfterRejection(promise) == exited \/ ~promise.handled

\* A ceiling timer fires after its operation has won the race: its callback
\* rejects the timer's promise.
LateTimerFires(p) ==
    /\ ~exited
    /\ p \in abandoned
    /\ p.what \in {"fetchTimer", "timer"}
    /\ abandoned' = (abandoned \ {p}) \cup {[p EXCEPT !.what = "fired " \o p.what]}
    /\ exited' = AfterRejection(p)
    /\ UNCHANGED <<handlerVars, lateFetch, clientClosed, serverVars, listing, partVars>>

\* Variant: the late result of the call is counted and sent as a product
\* event all the same.
LateAnalyzerSettles_Recorded(p) ==
    /\ ~exited
    /\ p \in abandoned
    /\ p.what = "call"
    /\ \E rejects \in BOOLEAN :
        /\ abandoned' = (abandoned \ {p}) \cup
               {[p EXCEPT !.what = IF rejects THEN "rejected call" ELSE "resolved call"]}
        /\ exited' = IF rejects THEN AfterRejection(p) ELSE exited
        /\ successCount' = IF rejects THEN successCount ELSE successCount + 1
        /\ errorCount' = IF rejects THEN errorCount + 1 ELSE errorCount
    /\ UNCHANGED <<openai, pc, accessToken, products, i, analyzedProducts, events,
                   endCalls, closedAt, latestAnalysisResults, tokenLog, fetchLog, raceLog,
                   delaysElapsed, lastComplete, elapsed, lateFetch, clientClosed,
                   serverVars, listing, partVars>>

\* An analyzeProduct call the ceiling has cut off settles, either way.
LateAnalyzerSettles(p) ==
    /\ ~exited
    /\ p \in abandoned
    /\ p.what = "call"
    /\ \E rejects \in BOOLEAN :
        /\ abandoned' = (abandoned \ {p}) \cup
               {[p EXCEPT !.what = IF rejects THEN "rejected call" ELSE "resolved call"]}
        /\ exited' = IF rejects THEN AfterRejection(p) ELSE exited
    /\ UNCHANGED <<handlerVars, lateFetch, clientClosed, serverVars, listing, partVars>>

\* The listing source rejects after the fetch ceiling has fired.
LateFetchRejects ==
    /\ ~exited
    /\ pc = "done"
    /\ fetchLog.kind = "timeout"
    /\ lateFetch.kind = "none"
    /\ \E message \in FetchErrors :
        lateFetch' = [kind |-> "rejected", message |-> message]
    /\ exited' = AfterRejection(Raced("fetch", 0))
    /\ UNCHANGED <<handlerVars, abandoned, clientClosed, serverVars, listing, partVars>>

\* The client closes the connection while the run is under way; the handler
\* registers no listener for it.
ClientCloses ==
    /\ pc \notin {"idle", "done"}
    /\ ~clientClosed
    /\ clientClosed' = TRUE
    /\ UNCHANGED <<handlerVars, lateFetch, abandoned, exited, serverVars, listing, partVars>>

NextProcess ==
    \/ Next
    \/ \E p \in abandoned : LateTimerFires(p)
    \/ \E p \in abandoned : LateAnalyzerSettles(p)
    \/ LateFetchRejects
    \/ ClientCloses

SpecProcess == Init /\ [][NextProcess]_vars

\* The fairness of FairSpec, for the run in its process.
FairProcess ==
    /\ SpecProcess
    /\ WF_vars(FetchTimeout)
    /\ WF_vars(FallbackResolves)
    /\ WF_vars(AnalysisTimeout)
    /\ WF_vars(NextItem)
    /\ WF_vars(Complete)

\* ------------------------------------------- the listing source at work
\* A handler calls getTrendingProducts: the first GraphQL request goes out.
CallListing ==
    /\ listing.pc = "idle"
    /\ \E limit \in Limits :
        listing' = [listing EXCEPT !.pc = "graphql", !.limit = limit,
                                   !.first = IF limit * 2 < 30 THEN limit * 2 ELSE 30]
    /\ UNCHANGED <<handlerVars, lateFetch, abandoned, envVars, serverVars, partVars>>

\* The step makeGraphQLRequest and getTrendingProducts take on an answer to
\* the GraphQL request: the posts become the result; or a rejected request
\* that shouldRetry accepts waits for the retry delay; or the error reaches
\* the catch of getTrendingProducts, which sends the REST request.
OnGraphQLAnswer(answer) ==
    LET logged == [listing EXCEPT
                      !.http = Append(@, [api |-> "graphql", answer |-> answer])]
    IN  IF GraphQLResolves(answer)
        THEN IF answer.body.kind = "posts"
             THEN [logged EXCEPT !.pc = "resolved",
                                 !.source = "graphql",
                                 !.result = GraphQLProducts(answer.body.posts,
                                                            listing.limit)]
             ELSE [logged EXCEPT !.pc = "rest"]
        ELSE IF listing.retryCount < MaxRetries /\ shouldRetry(answer)
             THEN [logged EXCEPT !.pc = "retryDelay"]
             ELSE [logged EXCEPT !.pc = "rest"]

GraphQLAnswered ==
    /\ listing.pc = "graphql"
    /\ \E answer \in GraphQLAnswers : listing' = OnGraphQLAnswer(answer)
    /\ UNCHANGED <<handlerVars, lateFetch, abandoned, envVars, serverVars, partVars>>

\* The retry delay elapses: makeGraphQLRequest calls itself with
\* retryCount + 1.
RetryDelayElapses ==
    /\ listing.pc = "retryDelay"
    /\ listing' = [listing EXCEPT !.retryCount = @ + 1, !.pc = "graphql"]
    /\ UNCHANGED <<handlerVars, lateFetch, abandoned, envVars, serverVars, partVars>>

\* Variant: no fallback to mock data; a failed REST request is thrown on.
OnRESTAnswer_NoMock(answer) ==
    LET logged == [listing EXCEPT
                      !.http = Append(@, [api |-> "rest", answer |-> answer])]
    IN  IF RESTResolves(answer) /\ answer.body.kind = "posts"
        THEN [logged EXCEPT !.pc = "resolved",
                            !.source = "rest",
                            !.result = RESTProducts(answer.body.posts, listing.limit)]
        ELSE [logged EXCEPT !.pc = "raised"]

\* The step on an answer to the REST request: its posts become the result;
\* on any failure the inner catch returns the mock data.
OnRESTAnswer(answer) ==
    LET logged == [listing EXCEPT
                      !.http = Append(@, [api |-> "rest", answer |-> answer])]
    IN  IF RESTResolves(answer) /\ answer.body.kind = "posts"
        THEN [logged EXCEPT !.pc = "resolved",
                            !.source = "rest",
                            !.result = RESTProducts(answer.body.posts, listing.limit)]
        ELSE [logged EXCEPT !.pc = "resolved",
                            !.source = "mock",
                            !.result = getMockProducts(listing.limit)]

RESTAnswered ==
    /\ listing.pc = "rest"
    /\ \E answer \in RESTAnswers : listing' = OnRESTAnswer(answer)
    /\ UNCHANGED <<handlerVars, lateFetch, abandoned, envVars, serverVars, partVars>>

NextListing ==
    \/ CallListing
    \/ GraphQLAnswered
    \/ RetryDelayElapses
    \/ RESTAnswered

\* The listing source on its own.
SpecListing == Init /\ [][NextListing]_vars

\* axios gives up on a request after 30000 ms, so every request is answered,
\* and the retry delay is a timer.
FairListing ==
    /\ SpecListing
    /\ WF_vars(GraphQLAnswered)
    /\ WF_vars(RetryDelayElapses)
    /\ WF_vars(RESTAnswered)

\* ------------------------------------------------- the analyzer at work
\* Everything outside one analyzeProduct call.
outsideCall ==
    <<handlerVars, lateFetch, abandoned, envVars, serverVars, listing, auth, gate>>

\* analyzeProduct(product) is called: without a client it returns the
\* rule-based analysis before any await; with one the first attempt goes out.
CallAnalyzer ==
    /\ call.pc = "idle"
    /\ \E product \in (IF openai THEN CompletionProducts ELSE CallProducts) :
        call' = IF openai
                THEN [call EXCEPT !.pc = "completion", !.product = product]
                ELSE [call EXCEPT !.pc = "resolved", !.product = product,
                                  !.result = analyzeProduct(product, openai, NoCompletion)]
    /\ UNCHANGED outsideCall

\* Variant: once the retries are used up, or on an error that is not
\* retried, the error is thrown on.
OnCompletion_Rethrows(outcome) ==
    LET logged == [call EXCEPT !.attempts = Append(@, outcome)]
    IN  IF outcome.kind \in {"json", "text"}
        THEN [logged EXCEPT !.pc = "resolved",
                            !.result = analyzeProduct(call.product, TRUE, outcome)]
        ELSE IF call.retryCount < AnalyzerMaxRetries /\ ChatGPTService_shouldRetry(outcome)
             THEN [logged EXCEPT !.pc = "retryDelay"]
             ELSE [logged EXCEPT !.pc = "rejected"]

\* The step analyzeProduct takes when an attempt has ended: a completion is
\* parsed and returned; a failure that shouldRetry accepts waits for the
\* retry delay while retries are left; any other failure is returned as an
\* analysis with an error field.
OnCompletion(outcome) ==
    LET logged == [call EXCEPT !.attempts = Append(@, outcome)]
    IN  IF outcome.kind \in {"json", "text"}
        THEN [logged EXCEPT !.pc = "resolved",
                            !.result = analyzeProduct(call.product, TRUE, outcome)]
        ELSE IF call.retryCount < AnalyzerMaxRetries /\ ChatGPTService_shouldRetry(outcome)
             THEN [logged EXCEPT !.pc = "retryDelay"]
             ELSE [logged EXCEPT
                      !.pc = "resolved",
                      !.result = analyzeProduct(call.product, TRUE,
                                     [kind |-> "error",
                                      message |-> ErrorMessage(outcome)])]

CompletionSettles ==
    /\ call.pc = "completion"
    /\ \E outcome \in CompletionOutcomes : call' = OnCompletion(outcome)
    /\ UNCHANGED outsideCall

\* The retry delay elapses: analyzeProduct calls itself with retryCount + 1.
AnalyzerRetryDelayElapses ==
    /\ call.pc = "retryDelay"
    /\ call' = [call EXCEPT !.retryCount = @ + 1, !.pc = "completion"]
    /\ UNCHANGED outsideCall

NextAnalyzer ==
    \/ CallAnalyzer
    \/ CompletionSettles
    \/ AnalyzerRetryDelayElapses

\* The analyzer on its own.
SpecAnalyzer == Init /\ [][NextAnalyzer]_vars

\* The retry delay is a timer.
FairAnalyzer == SpecAnalyzer /\ WF_vars(AnalyzerRetryDelayElapses)

\* --------------------------------------------- the credential provider at work
\* Everything outside the AuthService.
outsideAuth ==
    <<handlerVars, lateFetch, abandoned, envVars, serverVars, listing, call, gate>>

\* The constructor: a developer token that is set and is not the placeholder
\* is kept and no OAuth client is made; otherwise a client is made when id
\* and secret are configured. The token file is as the process finds it.
NewAuthService ==
    /\ auth.pc = "unconstructed"
    /\ \E env \in AuthEnvironments, file \in TokenFiles :
        LET hasDeveloperToken ==
                env.PH_DEVELOPER_TOKEN \notin {"unset", "your_developer_token"}
        IN  auth' = [auth EXCEPT
                        !.pc = "idle",
                        !.developerToken = IF hasDeveloperToken
                                           THEN Str(env.PH_DEVELOPER_TOKEN)
                                           ELSE null,
                        !.client = ~hasDeveloperToken /\ env.oauthConfigured,
                        !.file = file]
    /\ UNCHANGED outsideAuth

\* Time passes: the expiry time of the stored token is no longer ahead.
TokenLapses ==
    /\ auth.pc # "unconstructed"
    /\ auth.file.kind = "token"
    /\ auth.file.expires_at = "future"
    /\ auth' = [auth EXCEPT !.file.expires_at = "past"]
    /\ UNCHANGED outsideAuth

\* getStoredToken() is called: a developer token is returned at once;
\* otherwise the token file is read.
GetStoredToken ==
    /\ auth.pc \in {"idle", "returned"}
    /\ LET fresh == [auth EXCEPT !.token = null, !.refreshed = null,
                                 !.result = null, !.path = <<>>]
       IN  auth' = IF auth.developerToken # null
                   THEN [fresh EXCEPT !.pc = "returned",
                                      !.result = auth.developerToken,
                                      !.path = <<"developerToken">>]
                   ELSE [fresh EXCEPT !.pc = "readFile", !.path = <<"readFile">>]
    /\ UNCHANGED outsideAuth

\* Variant: the stored token is returned without looking at expires_at.
ReadFileSettles_NoExpiryCheck ==
    /\ auth.pc = "readFile"
    /\ auth' = IF auth.file.kind # "token"
               THEN [auth EXCEPT !.pc = "returned", !.result = null]
               ELSE [auth EXCEPT !.pc = "returned", !.token = auth.file,
                                 !.result = Str(auth.file.access_token)]
    /\ UNCHANGED outsideAuth

\* readFile settles. A missing or unreadable file and a text that does not
\* parse end in the catch, which returns null. A token that has not expired
\* is returned. An expired one goes to refreshToken: without a client that
\* returns null; with one, createToken can throw (null), the library can find
\* the token not expired (the stored access token is returned), or the
\* refresh request goes out.
ReadFileSettles ==
    /\ auth.pc = "readFile"
    /\ \/ /\ auth.file.kind # "token"
          /\ auth' = [auth EXCEPT !.pc = "returned", !.result = null]
       \/ /\ auth.file.kind = "token"
          /\ ~IsExpired(auth.file)
          /\ auth' = [auth EXCEPT !.pc = "returned", !.token = auth.file,
                                  !.result = Str(auth.file.access_token)]
       \/ /\ auth.file.kind = "token"
          /\ IsExpired(auth.file)
          /\ LET entered == [auth EXCEPT !.token = auth.file,
                                         !.path = Append(@, "refreshToken")]
             IN  IF ~auth.client
                 THEN auth' = [entered EXCEPT !.pc = "returned", !.result = null]
                 ELSE \E library \in {"throws", "not expired", "expired"} :
                        auth' = CASE library = "throws" ->
                                       [entered EXCEPT !.pc = "returned", !.result = null]
                                  [] library = "not expired" ->
                                       [entered EXCEPT
                                           !.pc = "returned",
                                           !.result = Str(auth.file.access_token)]
                                  [] OTHER ->
                                       [entered EXCEPT !.pc = "refresh",
                                                       !.path = Append(@, "refresh")]
    /\ UNCHANGED outsideAuth

\* accessToken.refresh() settles: a failure ends in the catch of
\* refreshToken (null); a refreshed token goes to storeToken.
RefreshSettles ==
    /\ auth.pc = "refresh"
    /\ \/ auth' = [auth EXCEPT !.pc = "returned", !.result = null,
                               !.path = Append(@, "refresh failed")]
       \/ auth' = [auth EXCEPT !.pc = "store", !.refreshed = RefreshedToken,
                               !.path = Append(@, "storeToken")]
    /\ UNCHANGED outsideAuth

\* storeToken settles: once the file is written the refreshed access token
\* is returned; a failure is thrown on to the catch of refreshToken (null),
\* and leaves the file as it was or with a text that does not parse.
StoreSettles ==
    /\ auth.pc = "store"
    /\ \/ auth' = [auth EXCEPT !.pc = "returned", !.file = auth.refreshed,
                               !.result = Str(auth.refreshed.access_token)]
       \/ \E file \in {auth.file, [kind |-> "garbage"]} :
            auth' = [auth EXCEPT !.pc = "returned", !.file = file, !.result = null,
                                 !.path = Append(@, "store failed")]
    /\ UNCHANGED outsideAuth

NextAuth ==
    \/ NewAuthService
    \/ TokenLapses
    \/ GetStoredToken
    \/ ReadFileSettles
    \/ RefreshSettles
    \/ StoreSettles

\* The credential provider on its own.
SpecAuth == Init /\ [][NextAuth]_vars

\* ------------------------------------------------ the environment check at work
\* Everything outside the middleware.
outsideGate ==
    <<handlerVars, lateFetch, abandoned, envVars, serverVars, listing, call, auth>>

\* The process starts with its environment.
StartProcess ==
    /\ gate.pc = "unstarted"
    /\ \E nodeEnv \in NodeEnvValues, domains \in AllowedDomainsValues :
        gate' = [gate EXCEPT !.pc = "listening", !.NODE_ENV = nodeEnv,
                             !.ALLOWED_DOMAINS = domains]
    /\ UNCHANGED outsideGate

\* A request has passed the middleware registered before checkEnvironment.
RequestArrives ==
    /\ gate.pc = "listening"
    /\ \E host \in Hosts, route \in Routes :
        gate' = [gate EXCEPT !.pc = "checkEnvironment",
                             !.request = [host |-> host, route |-> route]]
    /\ UNCHANGED outsideGate

\* Variant: the 403 is sent and next() is called all the same.
checkEnvironment_NoReturn ==
    /\ gate.pc = "checkEnvironment"
    /\ LET isProduction == gate.NODE_ENV = "production"
           domains == allowedDomains(gate.ALLOWED_DOMAINS)
       IN  IF isProduction /\ Len(domains) > 0
              /\ ~DomainsInclude(domains, gate.request.host)
           THEN gate' = [gate EXCEPT !.pc = "next", !.status = 403]
           ELSE gate' = [gate EXCEPT !.pc = "next"]
    /\ UNCHANGED outsideGate

\* checkEnvironment(req, res, next)
checkEnvironment ==
    /\ gate.pc = "checkEnvironment"
    /\ LET isProduction == gate.NODE_ENV = "production"
           domains == allowedDomains(gate.ALLOWED_DOMAINS)
       IN  IF isProduction /\ Len(domains) > 0
              /\ ~DomainsInclude(domains, gate.request.host)
           THEN gate' = [gate EXCEPT !.pc = "responded", !.status = 403]
           ELSE gate' = [gate EXCEPT !.pc = "next"]
    /\ UNCHANGED outsideGate

\* next(): the remaining middleware passes the request to its route handler.
RouteHandler ==
    /\ gate.pc = "next"
    /\ gate' = [gate EXCEPT !.pc = "handler", !.reached = gate.request.route]
    /\ UNCHANGED outsideGate

NextGate ==
    \/ StartProcess
    \/ RequestArrives
    \/ checkEnvironment
    \/ RouteHandler

\* The environment check on its own.
SpecGate == Init /\ [][NextGate]_vars

\* --------------------------------------------------------- several requests
\* The same handlers, one instance per request: every request has its own
\* locals and its own response, all share latestAnalysisResults.  A step is
\* again the synchronous code between two awaits of one handler instance.

\* The variables of the model of the single run above.
runVars == <<pc, accessToken, products, i, analyzedProducts, successCount,
             errorCount, events, endCalls, closedAt, tokenLog, fetchLog, raceLog, lateFetch,
             delaysElapsed, abandoned, elapsed, clientClosed, exited>>

\* The listing the source ranks, cut to the bound; a fetch resolves with a
\* section of it.
Catalogue == SubSeq(<<Item("A"), Item("B"), Item("C")>>, 1, MaxServerItems)

ServerItemLists ==
    {<<>>} \cup {SubSeq(Catalogue, ab[1], ab[2]) :
                    ab \in {p \in (1..Len(Catalogue)) \X (1..Len(Catalogue)) :
                               p[1] <= p[2] /\ p[2] - p[1] < MaxServerItems}}

\* Outcomes of the completion call used in the model of several requests.
ServerCompletions ==
    {c \in Completions : c.kind = "json" /\ c.summary = "s1"}

\* finalData of the handler instance with locals q
SummaryOf(q) ==
    [totalProducts |-> Len(q.analyzedProducts),
     successCount |-> q.successCount,
     errorCount |-> q.errorCount,
     products |-> q.analyzedProducts]

\* GET /api/latest-results: the response for the given slot.
LatestResultsResponse(slot) ==
    IF slot = null
    THEN [status |-> 404, body |-> [error |-> "No analysis results available"]]
    ELSE [status |-> 200, body |-> slot]

\* Request r is the next one to arrive: requests are numbered in the order
\* of their arrival.
Arrives(r) ==
    /\ requests[r].kind = "none"
    /\ \A o \in Requests : o < r => requests[o].kind # "none"

\* A client reads /api/latest-results.
ReadLatest ==
    /\ lastRead' = LatestResultsResponse(latestAnalysisResults)
    /\ UNCHANGED <<openai, latestAnalysisResults, lastComplete, requests, runVars, listing, partVars>>

\* Variant: the handler clears the slot when a run starts.
SStart_ResetsSlot(r) ==
    /\ Arrives(r)
    /\ requests' = [requests EXCEPT ![r] =
           [@ EXCEPT !.kind = "stream",
                     !.slotAtStart = latestAnalysisResults,
                     !.events = sendEvent(@, "status",
                         [message |-> "Starting analysis...", step |-> "init"]),
                     !.pc = "auth"]]
    /\ latestAnalysisResults' = null
    /\ lastRead' = NoResponse
    /\ UNCHANGED <<openai, lastComplete, runVars, listing, partVars>>

\* A streaming request arrives: status(init), await getStoredToken().
SStart(r) ==
    /\ Arrives(r)
    /\ requests' = [requests EXCEPT ![r] =
           [@ EXCEPT !.kind = "stream",
                     !.slotAtStart = latestAnalysisResults,
                     !.events = sendEvent(@, "status",
                         [message |-> "Starting analysis...", step |-> "init"]),
                     !.pc = "auth"]]
    /\ lastRead' = NoResponse
    /\ UNCHANGED <<openai, latestAnalysisResults, lastComplete, runVars, listing, partVars>>

\* getStoredToken() resolved with null.
STokenAbsent(r) ==
    /\ requests[r].kind = "stream"
    /\ requests[r].pc = "auth"
    /\ requests' = [requests EXCEPT ![r] =
           [@ EXCEPT !.outcome = [kind |-> "absent"],
                     !.events = sendEvent(@, "error", [message |->
                         "Authentication required. Please set up API credentials."]),
                     !.endCalls = @ + 2,
                     !.pc = "done"]]
    /\ lastRead' = NoResponse
    /\ UNCHANGED <<openai, latestAnalysisResults, lastComplete, runVars, listing, partVars>>

\* getStoredToken() resolved with a token: status(fetch), the fetch race.
STokenPresent(r) ==
    /\ requests[r].kind = "stream"
    /\ requests[r].pc = "auth"
    /\ requests' = [requests EXCEPT ![r] =
           [@ EXCEPT !.events = sendEvent(@, "status",
                         [message |-> "Fetching trending products...", step |-> "fetch"]),
                     !.pc = "fetching"]]
    /\ lastRead' = NoResponse
    /\ UNCHANGED <<openai, latestAnalysisResults, lastComplete, runVars, listing, partVars>>

\* The fetch race rejects, by the 15000 ms timer or by the listing source:
\* outer catch and finally.
SFetchFails(r) ==
    /\ requests[r].kind = "stream"
    /\ requests[r].pc = "fetching"
    /\ \E message \in {"Fetch timeout"} \cup FetchErrors :
        requests' = [requests EXCEPT ![r] =
           [@ EXCEPT !.outcome = [kind |-> "rejected", message |-> message],
                     !.events = sendEvent(@, "error", [message |-> message]),
                     !.endCalls = @ + 1,
                     !.pc = "done"]]
    /\ lastRead' = NoResponse
    /\ UNCHANGED <<openai, latestAnalysisResults, lastComplete, runVars, listing, partVars>>

\* getTrendingProducts resolves with an empty list.
SFetchEmpty(r) ==
    /\ requests[r].kind = "stream"
    /\ requests[r].pc = "fetching"
    /\ requests' = [requests EXCEPT ![r] =
           [@ EXCEPT !.outcome = [kind |-> "empty"],
                     !.events = sendEvent(@, "error",
                         [message |-> "No trending products found"]),
                     !.endCalls = @ + 2,
                     !.pc = "done"]]
    /\ lastRead' = NoResponse
    /\ UNCHANGED <<openai, latestAnalysisResults, lastComplete, runVars, listing, partVars>>

\* getTrendingProducts resolves with items: status(analyze), first progress.
SFetchItems(r) ==
    /\ requests[r].kind = "stream"
    /\ requests[r].pc = "fetching"
    /\ \E list \in ServerItemLists \ {<<>>} :
        requests' = [requests EXCEPT ![r] =
           [@ EXCEPT !.fetched = list,
                     !.products = list,
                     !.events = sendEvent(
                         sendEvent(@, "status",
                             [message |-> "Found " \o ToString(Len(list))
                                             \o " products. Starting analysis...",
                              step |-> "analyze",
                              total |-> Len(list)]),
                         "progress", ProgressData(list, 0)),
                     !.analyzedProducts = <<>>,
                     !.successCount = 0,
                     !.errorCount = 0,
                     !.i = 0,
                     !.pc = "analyzing"]]
    /\ lastRead' = NoResponse
    /\ UNCHANGED <<openai, latestAnalysisResults, lastComplete, runVars, listing, partVars>>

\* Variant: analyzedProducts is one module-level array shared by all runs.
SItemResolves_SharedArray(r) ==
    /\ requests[r].kind = "stream"
    /\ requests[r].pc = "analyzing"
    /\ \E completion \in ServerCompletions :
        LET q == requests[r]
            analysis == analyzeProduct(q.products[q.i + 1], openai, completion)
            analyzedProduct == WithAnalysis(q.products[q.i + 1], analysis)
        IN  requests' = [o \in Requests |->
               IF o = r
               THEN [q EXCEPT !.analyzedProducts = Append(@, analyzedProduct),
                              !.successCount = @ + 1,
                              !.events = sendEvent(@, "product", analyzedProduct),
                              !.pc = "delay"]
               ELSE IF requests[o].kind = "stream"
                    THEN [requests[o] EXCEPT
                              !.analyzedProducts = Append(@, analyzedProduct)]
                    ELSE requests[o]]
    /\ lastRead' = NoResponse
    /\ UNCHANGED <<openai, latestAnalysisResults, lastComplete, runVars, listing, partVars>>

\* analyzeProduct resolves before the 8000 ms timer.
SItemResolves(r) ==
    /\ requests[r].kind = "stream"
    /\ requests[r].pc = "analyzing"
    /\ \E completion \in ServerCompletions :
        LET q == requests[r]
            analysis == analyzeProduct(q.products[q.i + 1], openai, completion)
            analyzedProduct == WithAnalysis(q.products[q.i + 1], analysis)
        IN  requests' = [requests EXCEPT ![r] =
               [@ EXCEPT !.analyzedProducts = Append(@, analyzedProduct),
                         !.successCount = @ + 1,
                         !.events = sendEvent(@, "product", analyzedProduct),
                         !.pc = "delay"]]
    /\ lastRead' = NoResponse
    /\ UNCHANGED <<openai, latestAnalysisResults, lastComplete, runVars, listing, partVars>>

\* The item's race rejects, by the 8000 ms timer or by the analyzer: the
\* catch block of the loop.
SItemFails(r) ==
    /\ requests[r].kind = "stream"
    /\ requests[r].pc = "analyzing"
    /\ openai
    /\ \E message \in {"Analysis timeout"} \cup AnalyzerErrors :
        LET q == requests[r]
            errorProduct == WithAnalysis(q.products[q.i + 1], [error |-> message])
        IN  requests' = [requests EXCEPT ![r] =
               [@ EXCEPT !.analyzedProducts = Append(@, errorProduct),
                         !.errorCount = @ + 1,
                         !.events = sendEvent(@, "product", errorProduct),
                         !.pc = "delay"]]
    /\ lastRead' = NoResponse
    /\ UNCHANGED <<openai, latestAnalysisResults, lastComplete, runVars, listing, partVars>>

\* The 200 ms delay elapses and another item remains.
SNextItem(r) ==
    /\ requests[r].kind = "stream"
    /\ requests[r].pc = "delay"
    /\ requests[r].i + 1 < Len(requests[r].products)
    /\ requests' = [requests EXCEPT ![r] =
           [@ EXCEPT !.i = @ + 1,
                     !.events = sendEvent(@, "progress",
                         ProgressData(requests[r].products, requests[r].i + 1)),
                     !.pc = "analyzing"]]
    /\ lastRead' = NoResponse
    /\ UNCHANGED <<openai, latestAnalysisResults, lastComplete, runVars, listing, partVars>>

\* Variant: the slot is only filled when it is still empty.
SComplete_KeepsFirst(r) ==
    /\ requests[r].kind = "stream"
    /\ requests[r].pc = "delay"
    /\ ~(requests[r].i + 1 < Len(requests[r].products))
    /\ latestAnalysisResults' =
           IF latestAnalysisResults = null THEN SummaryOf(requests[r])
           ELSE latestAnalysisResults
    /\ lastComplete' = SummaryOf(requests[r])
    /\ requests' = [requests EXCEPT ![r] =
           [@ EXCEPT !.outcome = [kind |-> "ok"],
                     !.i = @ + 1,
                     !.events = sendEvent(@, "complete", SummaryOf(requests[r])),
                     !.endCalls = @ + 1,
                     !.pc = "done"]]
    /\ lastRead' = NoResponse
    /\ UNCHANGED <<openai, runVars, listing, partVars>>

\* The 200 ms delay after the last item elapses: finalData is stored in the
\* slot and sent as the complete event, finally ends the response.
SComplete(r) ==
    /\ requests[r].kind = "stream"
    /\ requests[r].pc = "delay"
    /\ ~(requests[r].i + 1 < Len(requests[r].products))
    /\ latestAnalysisResults' = SummaryOf(requests[r])
    /\ lastComplete' = SummaryOf(requests[r])
    /\ requests' = [requests EXCEPT ![r] =
           [@ EXCEPT !.outcome = [kind |-> "ok"],
                     !.i = @ + 1,
                     !.events = sendEvent(@, "complete", SummaryOf(requests[r])),
                     !.endCalls = @ + 1,
                     !.pc = "done"]]
    /\ lastRead' = NoResponse
    /\ UNCHANGED <<openai, runVars, listing, partVars>>

\* res.status(status).json(body) of the handler instance with locals q
Respond(q, status, body) == Append(q.responses, [status |-> status, body |-> body])

\* A quick-analyze request arrives: await getStoredToken().
QStart(r) ==
    /\ Arrives(r)
    /\ requests' = [requests EXCEPT ![r] =
           [@ EXCEPT !.kind = "quick", !.pc = "auth"]]
    /\ lastRead' = NoResponse
    /\ UNCHANGED <<openai, latestAnalysisResults, lastComplete, runVars, listing, partVars>>

\* getStoredToken() resolved with null: 401.
QTokenAbsent(r) ==
    /\ requests[r].kind = "quick"
    /\ requests[r].pc = "auth"
    /\ requests' = [requests EXCEPT ![r] =
           [@ EXCEPT !.outcome = [kind |-> "absent"],
                     !.responses = Respond(requests[r], 401,
                         [error |-> "Authentication required"]),
                     !.pc = "done"]]
    /\ lastRead' = NoResponse
    /\ UNCHANGED <<openai, latestAnalysisResults, lastComplete, runVars, listing, partVars>>

\* getStoredToken() resolved with a token: await getTrendingProducts(token, 3).
QTokenPresent(r) ==
    /\ requests[r].kind = "quick"
    /\ requests[r].pc = "auth"
    /\ requests' = [requests EXCEPT ![r] = [@ EXCEPT !.pc = "fetching"]]
    /\ lastRead' = NoResponse
    /\ UNCHANGED <<openai, latestAnalysisResults, lastComplete, runVars, listing, partVars>>

\* getTrendingProducts rejects: catch, 500 with the message.
QFetchRejects(r) ==
    /\ requests[r].kind = "quick"
    /\ requests[r].pc = "fetching"
    /\ \E message \in FetchErrors :
        requests' = [requests EXCEPT ![r] =
           [@ EXCEPT !.outcome = [kind |-> "rejected", message |-> message],
                     !.responses = Respond(requests[r], 500, [error |-> message]),
                     !.pc = "done"]]
    /\ lastRead' = NoResponse
    /\ UNCHANGED <<openai, latestAnalysisResults, lastComplete, runVars, listing, partVars>>

\* Variant: no check for an empty list, the loop runs zero times.
QFetchEmpty_NoCheck(r) ==
    /\ requests[r].kind = "quick"
    /\ requests[r].pc = "fetching"
    /\ requests' = [requests EXCEPT ![r] =
           [@ EXCEPT !.outcome = [kind |-> "empty"],
                     !.responses = Respond(requests[r], 200,
                         [success |-> TRUE,
                          data |-> [totalProducts |-> 0, products |-> <<>>]]),
                     !.pc = "done"]]
    /\ lastRead' = NoResponse
    /\ UNCHANGED <<openai, latestAnalysisResults, lastComplete, runVars, listing, partVars>>

\* getTrendingProducts resolves with an empty list: 404.
QFetchEmpty(r) ==
    /\ requests[r].kind = "quick"
    /\ requests[r].pc = "fetching"
    /\ requests' = [requests EXCEPT ![r] =
           [@ EXCEPT !.outcome = [kind |-> "empty"],
                     !.responses = Respond(requests[r], 404,
                         [error |-> "No products found"]),
                     !.pc = "done"]]
    /\ lastRead' = NoResponse
    /\ UNCHANGED <<openai, latestAnalysisResults, lastComplete, runVars, listing, partVars>>

\* getTrendingProducts resolves with items: await analyzeProduct of the first.
QFetchItems(r) ==
    /\ requests[r].kind = "quick"
    /\ requests[r].pc = "fetching"
    /\ \E list \in ServerItemLists \ {<<>>} :
        requests' = [requests EXCEPT ![r] =
           [@ EXCEPT !.fetched = list,
                     !.products = list,
                     !.analyzedProducts = <<>>,
                     !.i = 0,
                     !.pc = "analyzing"]]
    /\ lastRead' = NoResponse
    /\ UNCHANGED <<openai, latestAnalysisResults, lastComplete, runVars, listing, partVars>>

\* analyzeProduct resolves: push; after the last item, the 200 response.
QItemResolves(r) ==
    /\ requests[r].kind = "quick"
    /\ requests[r].pc = "analyzing"
    /\ \E completion \in ServerCompletions :
        LET q == requests[r]
            analysis == analyzeProduct(q.products[q.i + 1], openai, completion)
            pushed == Append(q.analyzedProducts,
                             WithAnalysis(q.products[q.i + 1], analysis))
        IN  requests' = [requests EXCEPT ![r] =
               IF q.i + 1 < Len(q.products)
               THEN [@ EXCEPT !.analyzedProducts = pushed, !.i = @ + 1]
               ELSE [@ EXCEPT !.analyzedProducts = pushed,
                              !.i = @ + 1,
                              !.outcome = [kind |-> "ok"],
                              !.responses = Respond(q, 200,
                                  [success |-> TRUE,
                                   data |-> [totalProducts |-> Len(pushed),
                                             products |-> pushed]]),
                              !.pc = "done"]]
    /\ lastRead' = NoResponse
    /\ UNCHANGED <<openai, latestAnalysisResults, lastComplete, runVars, listing, partVars>>

\* Variant: the loop catches the rejection at the item, as the streaming
\* handler does, and goes on.
QItemRejects_Continues(r) ==
    /\ requests[r].kind = "quick"
    /\ requests[r].pc = "analyzing"
    /\ openai
    /\ \E message \in AnalyzerErrors :
        LET q == requests[r]
            pushed == Append(q.analyzedProducts,
                             WithAnalysis(q.products[q.i + 1], [error |-> message]))
        IN  requests' = [requests EXCEPT ![r] =
               IF q.i + 1 < Len(q.products)
               THEN [@ EXCEPT !.analyzedProducts = pushed, !.i = @ + 1]
               ELSE [@ EXCEPT !.analyzedProducts = pushed,
                              !.i = @ + 1,
                              !.outcome = [kind |-> "ok"],
                              !.responses = Respond(q, 200,
                                  [success |-> TRUE,
                                   data |-> [totalProducts |-> Len(pushed),
                                             products |-> pushed]]),
                              !.pc = "done"]]
    /\ lastRead' = NoResponse
    /\ UNCHANGED <<openai, latestAnalysisResults, lastComplete, runVars, listing, partVars>>

\* analyzeProduct rejects: catch, 500 with the message.
QItemRejects(r) ==
    /\ requests[r].kind = "quick"
    /\ requests[r].pc = "analyzing"
    /\ openai
    /\ \E message \in AnalyzerErrors :
        requests' = [requests EXCEPT ![r] =
           [@ EXCEPT !.outcome = [kind |-> "rejected", message |-> message],
                     !.responses = Respond(requests[r], 500, [error |-> message]),
                     !.pc = "done"]]
    /\ lastRead' = NoResponse
    /\ UNCHANGED <<openai, latestAnalysisResults, lastComplete, runVars, listing, partVars>>

NextServer ==
    \/ ReadLatest
    \/ \E r \in Requests : SStart(r)
    \/ \E r \in Requests : STokenAbsent(r)
    \/ \E r \in Requests : STokenPresent(r)
    \/ \E r \in Requests : SFetchFails(r)
    \/ \E r \in Requests : SFetchEmpty(r)
    \/ \E r \in Requests : SFetchItems(r)
    \/ \E r \in Requests : SItemResolves(r)
    \/ \E r \in Requests : SItemFails(r)
    \/ \E r \in Requests : SNextItem(r)
    \/ \E r \in Requests : SComplete(r)
    \/ \E r \in Requests : QStart(r)
    \/ \E r \in Requests : QTokenAbsent(r)
    \/ \E r \in Requests : QTokenPresent(r)
    \/ \E r \in Requests : QFetchRejects(r)
    \/ \E r \in Requests : QFetchEmpty(r)
    \/ \E r \in Requests : QFetchItems(r)
    \/ \E r \in Requests : QItemResolves(r)
    \/ \E r \in Requests : QItemRejects(r)

SpecServer == Init /\ [][NextServer]_vars

\* ------------------------------------------------------------------- claims
IsProgress(e) == e.event = "progress"
IsProduct(e) == e.event = "product"
IsError(e) == e.event = "error"
IsItemEvent(e) == e.event \in {"progress", "product"}

ProductEvents == SelectSeq(events, IsProduct)
ItemEvents == SelectSeq(events, IsItemEvent)
ErrorEvents == SelectSeq(events, IsError)

CompleteEmitted == \E k \in 1..Len(events) : events[k].event = "complete"
Fetched == IF fetchLog.kind = "resolved" THEN fetchLog.list ELSE <<>>
RaceKinds(kind) == {k \in 1..Len(raceLog) : raceLog[k].kind = kind}

\* C1: for every run that emits complete, successCount + errorCount =
\* totalProducts = length(products) = number of fetched items, and every
\* fetched item occurs exactly once in the summary, with a non-null analysis.
C1_Totality ==
    \A k \in 1..Len(events) :
        events[k].event = "complete" =>
            LET d == events[k].data
            IN  /\ d.successCount + d.errorCount = d.totalProducts
                /\ d.totalProducts = Len(d.products)
                /\ Len(d.products) = Len(Fetched)
                /\ \A j \in 1..Len(Fetched) :
                       Cardinality({m \in 1..Len(d.products) :
                                       d.products[m].id = Fetched[j].id}) = 1
                /\ \A m \in 1..Len(d.products) :
                       /\ "analysis" \in DOMAIN d.products[m]
                       /\ d.products[m].analysis # null

\* A completed run over two items, one resolved and one timed out.
C1_Witness ==
    /\ CompleteEmitted
    /\ Len(Fetched) = 2
    /\ RaceKinds("resolved") # {}
    /\ RaceKinds("timeout") # {}

\* C2: the item events are progress(1), product(item 1), ..., progress(N),
\* product(item N): they alternate, the k-th progress carries current = k and
\* is followed by the product event of the k-th item; a finished run has all.
C2_ItemEventOrder ==
    /\ \A k \in 1..Len(ItemEvents) :
           IF k % 2 = 1
           THEN /\ ItemEvents[k].event = "progress"
                /\ ItemEvents[k].data.current = (k + 1) \div 2
                /\ ItemEvents[k].data.total = Len(Fetched)
                /\ ItemEvents[k].data.product = Fetched[(k + 1) \div 2].name
           ELSE /\ ItemEvents[k].event = "product"
                /\ ItemEvents[k].data.id = Fetched[k \div 2].id
    /\ Len(ItemEvents) <= 2 * Len(Fetched)
    /\ CompleteEmitted => Len(ItemEvents) = 2 * Len(Fetched)

\* A completed run over two items.
C2_Witness ==
    /\ CompleteEmitted
    /\ Len(Fetched) = 2
    /\ Len(ItemEvents) = 4

\* C3: the product events, and the products of the summary in the complete
\* event, are in the order of the list the listing source returned.
C3_FetchOrder ==
    /\ Len(ProductEvents) <= Len(Fetched)
    /\ \A k \in 1..Len(ProductEvents) : ProductEvents[k].data.id = Fetched[k].id
    /\ \A k \in 1..Len(events) :
           events[k].event = "complete" =>
               /\ Len(events[k].data.products) = Len(Fetched)
               /\ \A m \in 1..Len(Fetched) :
                      events[k].data.products[m].id = Fetched[m].id

\* A completed run over the list B, A whose second item failed.
C3_Witness ==
    /\ CompleteEmitted
    /\ Len(Fetched) = 2
    /\ Fetched[1].id = "B"
    /\ Fetched[2].id = "A"
    /\ raceLog[1].kind = "resolved"
    /\ raceLog[2].kind # "resolved"

\* C4: a complete event is the last event written, and it is never written
\* in a run whose credential was absent, whose fetch failed or timed out, or
\* whose fetch returned no item.
C4_CompleteLast ==
    \A k \in 1..Len(events) :
        events[k].event = "complete" =>
            /\ k = Len(events)
            /\ tokenLog = "present"
            /\ fetchLog.kind = "resolved"
            /\ fetchLog.list # <<>>

\* A run that has emitted complete and ended the response.
C4_Witness ==
    /\ CompleteEmitted
    /\ pc = "done"
    /\ endCalls > 0

\* C5: when the credential is absent exactly one error event is emitted and
\* no event follows it.
C5_AbsentCredential ==
    tokenLog = "absent" =>
        /\ Len(ErrorEvents) = 1
        /\ events[Len(events)].event = "error"

\* The run of an absent credential, ended.
C5_Witness ==
    /\ tokenLog = "absent"
    /\ pc = "done"
    /\ endCalls > 0

StatusInit == [event |-> "status",
               data |-> [message |-> "Starting analysis...", step |-> "init"]]
ErrorAuth == [event |-> "error",
              data |-> [message |->
                  "Authentication required. Please set up API credentials."]]

\* C6 (as stated): when the credential is absent the whole event sequence is
\* one error event, with no event before it.
C6_OnlyError ==
    tokenLog = "absent" => events = <<ErrorAuth>>

\* C6 (amended): when the credential is absent the whole event sequence is
\* status(init) followed by one error event, and the response is ended.
C6_InitThenError ==
    tokenLog = "absent" =>
        /\ events = <<StatusInit, ErrorAuth>>
        /\ pc = "done"
        /\ endCalls > 0

\* The absent-credential run after its error event.
C6_Witness ==
    /\ tokenLog = "absent"
    /\ Len(events) = 2
    /\ events[2].event = "error"

\* C7: when the analyzer rejects for exactly one item k and resolves for all
\* others, the completed run has N product events, errorCount = 1 and
\* successCount = N - 1, item k carries a non-empty error and every other
\* item carries exactly the analysis the analyzer resolved with.
C7_OneRejection ==
    (/\ CompleteEmitted
     /\ Cardinality(RaceKinds("rejected")) = 1
     /\ RaceKinds("timeout") = {})
    =>
        LET d == events[Len(events)].data
            N == Len(Fetched)
        IN  /\ events[Len(events)].event = "complete"
            /\ Len(ProductEvents) = N
            /\ d.errorCount = 1
            /\ d.successCount = N - 1
            /\ Len(d.products) = N
            /\ \A k \in 1..N :
                   /\ ProductEvents[k].data = d.products[k]
                   /\ IF raceLog[k].kind = "rejected"
                      THEN /\ HasError(d.products[k].analysis)
                           /\ d.products[k].analysis.error # ""
                           /\ d.products[k].analysis.error = raceLog[k].message
                      ELSE d.products[k] =
                               WithAnalysis(Fetched[k], raceLog[k].analysis)

\* A completed run over two items whose second analysis rejected.
C7_Witness ==
    /\ CompleteEmitted
    /\ Len(Fetched) = 2
    /\ raceLog[1].kind = "resolved"
    /\ raceLog[2].kind = "rejected"

\* C8: in every complete event errorCount is the number of products whose
\* analysis carries an error field and successCount the number of the others.
C8_CountsMatchVariants ==
    \A k \in 1..Len(events) :
        events[k].event = "complete" =>
            LET d == events[k].data
                failed == {m \in 1..Len(d.products) : HasError(d.products[m].analysis)}
            IN  /\ d.errorCount = Cardinality(failed)
                /\ d.successCount = Len(d.products) - Cardinality(failed)

AnalysisStarted ==
    \E k \in 1..Len(events) :
        events[k].event = "status" /\ events[k].data.step = "analyze"

\* C10: once status(analyze) was emitted the run emits no error event and
\* ends with complete, whatever the items' outcomes; an error event occurs
\* only for an absent credential, a failed or timed out fetch, or an empty
\* fetch.
C10_AnalysisAlwaysCompletes ==
    /\ [](AnalysisStarted => ErrorEvents = <<>>)
    /\ [](AnalysisStarted /\ pc = "done" =>
              events[Len(events)].event = "complete")
    /\ [](ErrorEvents # <<>> =>
              \/ tokenLog = "absent"
              \/ fetchLog.kind \in {"rejected", "timeout"}
              \/ (fetchLog.kind = "resolved" /\ fetchLog.list = <<>>))
    /\ (AnalysisStarted ~> (pc = "done" /\ CompleteEmitted))

\* A completed run in which every item failed, one by rejection and one by
\* timeout.
C10_Witness ==
    /\ CompleteEmitted
    /\ Len(Fetched) = 2
    /\ RaceKinds("resolved") = {}
    /\ RaceKinds("rejected") # {}
    /\ RaceKinds("timeout") # {}
    /\ events[Len(events)].data.errorCount = 2

\* C11: when the fetch ceiling fires first, or the listing source rejects,
\* the run ends with one error event and has no progress, product or complete
\* event; a list that arrives after the ceiling changes nothing of that.
C11_FetchFailureAborts ==
    fetchLog.kind \in {"timeout", "rejected"} =>
        /\ pc = "done"
        /\ endCalls > 0
        /\ Len(ErrorEvents) = 1
        /\ events[Len(events)].event = "error"
        /\ ItemEvents = <<>>
        /\ ~CompleteEmitted
        /\ ~AnalysisStarted
        /\ products = <<>>
        /\ analyzedProducts = <<>>

\* The ceiling fired and a non-empty list arrived afterwards.
C11_Witness ==
    /\ fetchLog.kind = "timeout"
    /\ lateFetch.kind = "resolved"
    /\ lateFetch.list # <<>>
    /\ pc = "done"

StatusFetch == [event |-> "status",
                data |-> [message |-> "Fetching trending products...", step |-> "fetch"]]
ErrorNoProducts == [event |-> "error",
                    data |-> [message |-> "No trending products found"]]

\* C12: with a credential and an empty fetch the whole event sequence is
\* status(init), status(fetch), error(no products found), and the response
\* is ended.
C12_EmptyFetch ==
    (fetchLog.kind = "resolved" /\ fetchLog.list = <<>>) =>
        /\ events = <<StatusInit, StatusFetch, ErrorNoProducts>>
        /\ pc = "done"
        /\ endCalls > 0

\* The run of an empty fetch, ended.
C12_Witness ==
    /\ tokenLog = "present"
    /\ fetchLog.kind = "resolved"
    /\ fetchLog.list = <<>>
    /\ Len(events) = 3
    /\ endCalls > 0

\* The event sequence of a run over list whose k-th item got analyses[k].
ExpectedEvents(list, analyses) ==
    LET N == Len(list)
        analysed == [m \in 1..N |-> WithAnalysis(list[m], analyses[m])]
        itemEvents ==
            [n \in 1..(2 * N) |->
                IF n % 2 = 1
                THEN [event |-> "progress",
                      data |-> [current |-> (n + 1) \div 2,
                                total |-> N,
                                product |-> list[(n + 1) \div 2].name,
                                message |-> "Analyzing " \o list[(n + 1) \div 2].name
                                               \o "..."]]
                ELSE [event |-> "product", data |-> analysed[n \div 2]]]
    IN  <<StatusInit, StatusFetch,
          [event |-> "status",
           data |-> [message |-> "Found " \o ToString(N)
                                    \o " products. Starting analysis...",
                     step |-> "analyze", total |-> N]]>>
        \o itemEvents
        \o <<[event |-> "complete",
              data |-> [totalProducts |-> N, successCount |-> N, errorCount |-> 0,
                        products |-> analysed]]>>

AllSucceeded ==
    /\ CompleteEmitted
    /\ \A k \in 1..Len(raceLog) :
           raceLog[k].kind = "resolved" /\ ~HasError(raceLog[k].analysis)

\* C13: when every item's analysis succeeded, the whole event sequence is
\* status(init), status(fetch), status(analyze, N), progress(k), product(k)
\* for k = 1..N in fetch order, complete(N, N, 0): a function of the fetched
\* list and of the analyses alone.
C13_AllSuccessSequence ==
    AllSucceeded =>
        events = ExpectedEvents(Fetched, [k \in 1..Len(raceLog) |-> raceLog[k].analysis])

\* A completed run over two items, both analysed without an error.
C13_Witness ==
    /\ AllSucceeded
    /\ Len(Fetched) = 2
    /\ Len(raceLog) = 2
    /\ pc = "done"

\* C14 (as stated): the delay is skipped after the final item, so a completed
\* run over N items has waited N - 1 delays.
C14_NoDelayAfterLast ==
    CompleteEmitted => delaysElapsed = Len(Fetched) - 1

\* C14 (amended): a delay follows every item, the final one included, whether
\* the item succeeded or failed; complete is emitted only when the delay after
\* the final item has elapsed.
C14_DelayAfterEveryItem ==
    /\ delaysElapsed = Len(ProductEvents) - (IF pc = "delay" THEN 1 ELSE 0)
    /\ pc = "delay" => events[Len(events)].event = "product"
    /\ Len(ProductEvents) > delaysElapsed => pc = "delay"
    /\ CompleteEmitted => delaysElapsed = Len(Fetched)

\* A completed run over two items, one analysed and one failed: two delays.
C14_Witness ==
    /\ CompleteEmitted
    /\ Len(Fetched) = 2
    /\ RaceKinds("resolved") # {}
    /\ RaceKinds("resolved") # {1, 2}
    /\ delaysElapsed = 2

IsTerminal(e) == e.event \in {"error", "complete"}
TerminalEvents == SelectSeq(events, IsTerminal)

\* The events of request r that carry the given name, in order.
EventsOf(r, name) ==
    SelectSeq(requests[r].events, LAMBDA e : e.event = name)

\* Streaming request r has emitted complete.
Completed(r) == requests[r].kind = "stream" /\ EventsOf(r, "complete") # <<>>

\* The RunSummary carried by the complete event of request r.
CompleteData(r) == EventsOf(r, "complete")[1].data

\* What a read has to return when lastComplete is the data of the complete
\* event emitted most recently.
ExpectedRead ==
    IF lastComplete = null
    THEN [status |-> 404, body |-> [error |-> "No analysis results available"]]
    ELSE [status |-> 200, body |-> lastComplete]

\* C15: after any sequence of streaming runs, quick-analyze runs and reads,
\* a read of /api/latest-results returns 404 if and only if no streaming run
\* has emitted complete so far, and otherwise returns exactly the RunSummary
\* carried by the complete event emitted most recently.
C15_ReadReturnsLatest ==
    /\ [](lastComplete = null <=> ~ \E r \in Requests : Completed(r))
    /\ [](lastComplete # null =>
            \E r \in Requests : Completed(r) /\ lastComplete = CompleteData(r))
    /\ [][lastRead' # NoResponse =>
            /\ lastRead' = ExpectedRead
            /\ lastRead'.status = 404 <=> ~ \E r \in Requests : Completed(r)]_vars

\* Two streaming runs completed with different summaries, and a read after
\* the second one returned the second summary.
C15_Witness ==
    /\ \A r \in Requests : Completed(r)
    /\ \E r, o \in Requests : CompleteData(r) # CompleteData(o)
    /\ lastRead.status = 200
    /\ lastRead.body = lastComplete

\* Request r emits complete in this step.
EmitsComplete(r) ==
    /\ requests[r].kind = "stream"
    /\ Len(requests'[r].events) = Len(requests[r].events) + 1
    /\ requests'[r].events[Len(requests'[r].events)].event = "complete"
    /\ latestAnalysisResults' = requests'[r].events[Len(requests'[r].events)].data

\* Streaming request r aborted: absent credential, fetch failure or timeout,
\* or empty fetch.
Aborted(r) ==
    /\ requests[r].kind = "stream"
    /\ requests[r].pc = "done"
    /\ requests[r].outcome.kind \in {"absent", "rejected", "empty"}

\* C16: the latest-results slot changes only in the step in which a
\* streaming run emits complete; aborting streaming runs, quick-analyze runs
\* and reads leave it unchanged, so a stored RunSummary survives a later
\* aborted run.
C16_OnlyCompleteWrites ==
    /\ [][latestAnalysisResults' # latestAnalysisResults =>
            \E r \in Requests : EmitsComplete(r)]_vars
    /\ [][(\/ lastRead' # NoResponse
           \/ \E r \in Requests :
                /\ requests'[r] # requests[r]
                /\ requests'[r].kind = "quick" \/ Aborted(r)')
              => latestAnalysisResults' = latestAnalysisResults]_vars

\* A streaming run that arrived when the slot held a RunSummary aborted, and
\* the slot still holds that RunSummary.
C16_Witness ==
    \E r \in Requests :
        /\ Aborted(r)
        /\ requests[r].slotAtStart # null
        /\ latestAnalysisResults = requests[r].slotAtStart

\* The ids of a sequence of items.
Ids(list) == [k \in 1..Len(list) |-> list[k].id]

\* The data of the product events of request r, in order.
ProductsOf(r) ==
    LET evs == EventsOf(r, "product") IN [k \in 1..Len(evs) |-> evs[k].data]

\* C17: under any interleaving of streaming runs the slot holds nothing or
\* the whole RunSummary of one completed run, the one that completed last;
\* the product events, the progress events, the counts and the RunSummary of
\* a run are about the items of that run's own fetch only.
C17_NoMixture ==
    /\ \/ latestAnalysisResults = null
       \/ \E r \in Requests : Completed(r) /\ latestAnalysisResults = CompleteData(r)
    /\ latestAnalysisResults = lastComplete
    /\ \A r \in Requests : requests[r].kind = "stream" =>
        LET q == requests[r]
            fetchedIds == Ids(q.fetched)
            progress == EventsOf(r, "progress")
        IN  /\ Len(ProductsOf(r)) <= Len(q.fetched)
            /\ Ids(ProductsOf(r)) = SubSeq(fetchedIds, 1, Len(ProductsOf(r)))
            /\ q.successCount + q.errorCount = Len(ProductsOf(r))
            /\ \A k \in 1..Len(progress) :
                /\ progress[k].data.total = Len(q.fetched)
                /\ progress[k].data.product = q.fetched[k].name
            /\ Completed(r) =>
                /\ CompleteData(r).products = ProductsOf(r)
                /\ Ids(CompleteData(r).products) = fetchedIds
                /\ CompleteData(r).totalProducts = Len(q.fetched)
                /\ CompleteData(r).successCount + CompleteData(r).errorCount
                       = Len(q.fetched)

\* Two streaming runs overlapped (each arrived before the other completed),
\* fetched different lists and both completed.
C17_Witness ==
    \E r, o \in Requests :
        /\ r # o
        /\ Completed(r) /\ Completed(o)
        /\ requests[r].slotAtStart = null /\ requests[o].slotAtStart = null
        /\ requests[r].fetched # requests[o].fetched
        /\ latestAnalysisResults = CompleteData(o)
        /\ latestAnalysisResults # CompleteData(r)

\* C18: once the credential lookup has settled the run always ends its
\* response, on every outcome and even when the listing source or the
\* analyzer never settle (only the timers and the handler's own continuations
\* are assumed to run).
C18_EventuallyCloses ==
    (tokenLog # "pending") ~> (pc = "done" /\ endCalls > 0)

\* The fetch never settled: the ceiling fired and the response was ended.
C18_Witness ==
    /\ fetchLog.kind = "timeout"
    /\ lateFetch.kind = "none"
    /\ pc = "done"
    /\ endCalls > 0

\* C19: a run that has ended its response has emitted exactly one terminal
\* event, error or complete and not both, and that event is the last one.
C19_OneTerminalEvent ==
    endCalls > 0 =>
        /\ Len(TerminalEvents) = 1
        /\ IsTerminal(events[Len(events)])
        /\ (CompleteEmitted => ErrorEvents = <<>>)
        /\ pc = "done"

\* A run ended by the outer catch after the listing source rejected.
C19_Witness ==
    /\ endCalls > 0
    /\ fetchLog.kind = "rejected"
    /\ events[Len(events)].event = "error"

\* C20: a quick-analyze request produces one response and no more: 401 with
\* an error body when the credential is absent, 404 when the fetch returned
\* no item, 500 with the failure message when the fetch or an analysis
\* raised, and otherwise 200 with success = true and data whose totalProducts
\* is the length of its products and the number of fetched items.
C20_QuickResponses ==
    \A r \in Requests : requests[r].kind = "quick" =>
        LET q == requests[r] IN
        /\ Len(q.responses) <= 1
        /\ q.pc = "done" <=> Len(q.responses) = 1
        /\ q.pc = "done" =>
            LET response == q.responses[1] IN
            /\ q.outcome.kind \in {"absent", "empty", "rejected", "ok"}
            /\ q.outcome.kind = "absent" =>
                /\ response.status = 401
                /\ DOMAIN response.body = {"error"}
            /\ q.outcome.kind = "empty" => response.status = 404
            /\ q.outcome.kind = "rejected" =>
                /\ response.status = 500
                /\ response.body = [error |-> q.outcome.message]
            /\ q.outcome.kind = "ok" =>
                /\ response.status = 200
                /\ response.body.success = TRUE
                /\ response.body.data.totalProducts = Len(response.body.data.products)
                /\ response.body.data.totalProducts = Len(q.fetched)
                /\ Len(q.fetched) > 0
                /\ Ids(response.body.data.products) = Ids(q.fetched)

\* One quick-analyze request answered 200 and another answered 500 after an
\* analysis raised.
C20_Witness ==
    \E r, o \in Requests :
        /\ requests[r].kind = "quick" /\ requests[o].kind = "quick"
        /\ requests[r].outcome.kind = "ok"
        /\ requests[r].responses[1].status = 200
        /\ requests[o].outcome.kind = "rejected"
        /\ requests[o].fetched # <<>>
        /\ requests[o].responses[1].status = 500

\* The outcome of the analyzer call behind an analysed product of a
\* streaming run: raised with a message, cut off by the ceiling, or resolved.
OutcomeOf(analysis) ==
    IF DOMAIN analysis = {"error"}
    THEN IF analysis.error \in AnalyzerErrors
         THEN [kind |-> "raised", message |-> analysis.error]
         ELSE [kind |-> "ceiling"]
    ELSE [kind |-> "resolved", analysis |-> analysis]

\* The per-item analyzer outcomes of request r, in the order of the calls.
AnalyzerOutcomes(r) ==
    LET q == requests[r]
        settled == [k \in 1..Len(q.analyzedProducts) |->
                       OutcomeOf(q.analyzedProducts[k].analysis)]
    IN  IF q.kind = "quick" /\ q.outcome.kind = "rejected" /\ q.fetched # <<>>
        THEN Append(settled, [kind |-> "raised", message |-> q.outcome.message])
        ELSE settled

\* A finished streaming run r and a finished quick-analyze run o that fetched
\* the same items and saw the same analyzer outcomes.
SameInputs(r, o) ==
    /\ Completed(r)
    /\ requests[o].kind = "quick" /\ requests[o].pc = "done"
    /\ requests[r].fetched # <<>>
    /\ requests[r].fetched = requests[o].fetched
    /\ AnalyzerOutcomes(r) = AnalyzerOutcomes(o)

InFlightCalls ==
    {p.item : p \in {q \in abandoned : q.what = "call"}}
        \cup (IF pc = "analyzing" THEN {i + 1} ELSE {})

\* C22: at no moment are the analyzer calls of two items of one run in
\* flight together, also after a ceiling has fired and the run has moved on.
C22_Serialized == Cardinality(InFlightCalls) <= 1

C24_NoCancellation ==
    /\ [][clientClosed' # clientClosed => UNCHANGED handlerVars]_vars
    /\ [](clientClosed /\ pc = "done" /\ Fetched # <<>> =>
            /\ events[Len(events)].event = "complete"
            /\ events[Len(events)].data.totalProducts = Len(Fetched)
            /\ Len(ProductEvents) = Len(Fetched)
            /\ \A k \in 1..Len(Fetched) : ProductEvents[k].data.id = Fetched[k].id
            /\ events[Len(events)].data.products =
                   [k \in 1..Len(ProductEvents) |-> ProductEvents[k].data]
            /\ latestAnalysisResults = events[Len(events)].data)
    /\ ((clientClosed /\ AnalysisStarted) ~> (pc = "done" /\ CompleteEmitted))

\* The client went away during a run over two items, and the run still
\* completed and stored its summary.
C24_Witness ==
    /\ clientClosed
    /\ pc = "done"
    /\ Len(Fetched) = 2
    /\ CompleteEmitted
    /\ latestAnalysisResults = events[Len(events)].data
    /\ latestAnalysisResults.totalProducts = 2

\* C25: from the arrival of the request to the close of the channel a
\* streaming run never takes more than the overall budget of 25 seconds.
C25_WithinBudget == elapsed <= OverallBudget

\* The k-th HTTP request of the call was GraphQL and another GraphQL request
\* followed it or is about to.
Retried(k) ==
    \/ k = Len(listing.http) /\ listing.pc \in {"retryDelay", "graphql"}
    \/ k < Len(listing.http) /\ listing.http[k + 1].api = "graphql"

\* C27: a GraphQL request answered with 429 is retried after the retry
\* delay, as long as fewer than 3 retries were made; one answered with 401 or
\* 403 is not retried.
C27_RetryOn429 ==
    \A k \in 1..Len(listing.http) :
        LET e == listing.http[k] IN
        e.api = "graphql" /\ e.answer.kind = "http" =>
            /\ e.answer.status \in {401, 403} => ~Retried(k)
            /\ e.answer.status = 429 /\ k <= MaxRetries => Retried(k)
            /\ k > MaxRetries => ~Retried(k)

\* C29: getTrendingProducts resolves with at most limit items, whichever of
\* its paths produced the list, and the handlers pass 10 and 3.
C29_AtMostLimit ==
    /\ listing.pc # "idle" => listing.limit \in {QuickLimit, StreamLimit}
    /\ listing.pc = "resolved" =>
        /\ Len(listing.result) <= listing.limit
        /\ Len(listing.result) <= StreamLimit
        /\ listing.limit = QuickLimit => Len(listing.result) <= QuickLimit

\* The streaming handler's call was answered with more than 10 posts, all
\* launched today, and resolved with 10 of them.
C29_Witness ==
    /\ listing.pc = "resolved"
    /\ listing.limit = StreamLimit
    /\ listing.source = "graphql"
    /\ Len(listing.http[Len(listing.http)].answer.body.posts) > StreamLimit
    /\ listing.http[Len(listing.http)].answer.body.posts[1].today
    /\ Len(listing.result) = StreamLimit

\* An answer that makes the GraphQL path, or the REST path, fail.
GraphQLFailed(answer) == ~(GraphQLResolves(answer) /\ answer.body.kind = "posts")
RESTFailed(answer) == ~(RESTResolves(answer) /\ answer.body.kind = "posts")

\* C30: the listing source never raises and degrades in a fixed order: the
\* REST request is made only after the GraphQL path has failed, mock data is
\* returned only after GraphQL and REST have both failed, posts delivered by
\* GraphQL are never replaced by REST or mock data, and every call resolves
\* with a list.
C30_FallbackOrder ==
    /\ [](listing.pc # "raised")
    /\ [](\A k \in 1..Len(listing.http) :
            /\ listing.http[k].api = "rest" =>
                /\ k = Len(listing.http)
                /\ k > 1
                /\ \A j \in 1..(k - 1) :
                    /\ listing.http[j].api = "graphql"
                    /\ GraphQLFailed(listing.http[j].answer)
            /\ listing.http[k].api = "graphql"
                   /\ ~GraphQLFailed(listing.http[k].answer) =>
                /\ k = Len(listing.http)
                /\ listing.pc = "resolved"
                /\ listing.source = "graphql"
                /\ listing.result =
                       GraphQLProducts(listing.http[k].answer.body.posts, listing.limit))
    /\ [](listing.source = "mock" =>
            /\ listing.http[Len(listing.http)].api = "rest"
            /\ RESTFailed(listing.http[Len(listing.http)].answer)
            /\ \A k \in 1..Len(listing.result) : listing.result[k].api = "mock")
    /\ [](listing.source = "rest" =>
            /\ listing.http[Len(listing.http)].api = "rest"
            /\ \A k \in 1..Len(listing.result) : listing.result[k].api = "rest")
    /\ (listing.pc = "graphql" ~> listing.pc = "resolved")

\* Four GraphQL requests failed, then the REST request failed, and the call
\* resolved with mock data.
C30_Witness ==
    /\ listing.pc = "resolved"
    /\ listing.source = "mock"
    /\ Len(listing.http) = MaxRetries + 2
    /\ listing.retryCount = MaxRetries
    /\ listing.result # <<>>

\* C28: when no client for the external analysis is configured, every item's
\* analyzer call resolves with the rule-based analysis of that item (no error
\* field, at least one target user), nothing times out or rejects, and a run
\* that completes reports errorCount = 0.
C28_FallbackWithoutClient ==
    ~openai =>
        /\ \A k \in 1..Len(raceLog) :
            /\ raceLog[k].kind = "resolved"
            /\ raceLog[k].analysis = createFallbackAnalysis(products[k])
            /\ ~HasError(raceLog[k].analysis)
            /\ Len(raceLog[k].analysis.targetUsers) > 0
        /\ errorCount = 0
        /\ successCount = Len(raceLog)
        /\ CompleteEmitted =>
            /\ events[Len(events)].data.errorCount = 0
            /\ \A k \in 1..Len(events[Len(events)].data.products) :
                 ~HasError(events[Len(events)].data.products[k].analysis)

\* A run without a client completed after analysing two items.
C28_Witness ==
    /\ ~openai
    /\ CompleteEmitted
    /\ Len(raceLog) >= 2
    /\ events[Len(events)].data.successCount = Len(products)

\* C26: an item whose external analysis call hits the 8000 ms ceiling is
\* given the rule-based fallback analysis of its metadata, not an error.
C26_TimeoutGetsFallback ==
    \A k \in 1..Len(raceLog) :
        raceLog[k].kind = "timeout" =>
            /\ analyzedProducts[k].analysis = createFallbackAnalysis(products[k])
            /\ ~HasError(analyzedProducts[k].analysis)

\* The GraphQL attempts of the call so far.
GraphQLAttempts == SelectSeq(listing.http, LAMBDA e : e.api = "graphql")

\* The answer is one of the failures the retry rule names.
RetryableFailure(answer) ==
    \/ answer.kind = "http"
           /\ (answer.status = 429 \/ (answer.status >= 500 /\ answer.status <= 599))
    \/ answer.kind = "network" /\ answer.code \in {"ECONNRESET", "ETIMEDOUT"}

\* C31: makeGraphQLRequest makes at most maxRetries + 1 = 4 attempts; an
\* attempt is followed by another only when it failed with a retryable error
\* and fewer than 3 retries were used; a failure that is not retryable, and
\* the failure of the 4th attempt, is raised at once; and the request always
\* comes to an end.
C31_BoundedRetries ==
    /\ [](Len(GraphQLAttempts) <= MaxRetries + 1)
    /\ [](listing.retryCount <= MaxRetries)
    /\ [](\A k \in 1..Len(listing.http) :
            listing.http[k].api = "graphql" =>
                /\ Retried(k) =>
                    /\ GraphQLFailed(listing.http[k].answer)
                    /\ RetryableFailure(listing.http[k].answer)
                    /\ k <= MaxRetries
                /\ GraphQLFailed(listing.http[k].answer)
                       /\ (~RetryableFailure(listing.http[k].answer)
                              \/ k = MaxRetries + 1) =>
                    /\ ~Retried(k)
                    /\ k = Len(listing.http) => listing.pc = "rest")
    /\ (listing.pc \in {"graphql", "retryDelay"}
            ~> listing.pc \notin {"graphql", "retryDelay"})

\* Four attempts failed with retryable errors and the last error was raised
\* to getTrendingProducts, which turned to REST.
C31_Witness ==
    /\ listing.pc = "rest"
    /\ Len(listing.http) = MaxRetries + 1
    /\ \A k \in 1..Len(listing.http) : RetryableFailure(listing.http[k].answer)
    /\ listing.http[1].answer.kind = "network"
    /\ listing.http[MaxRetries + 1].answer.kind = "http"

\* The failures of an attempt the retry rule of the analyzer names.
RetryableCompletion(outcome) ==
    \/ outcome.kind = "api"
           /\ (outcome.status = 429 \/ (outcome.status >= 500 /\ outcome.status <= 599))
    \/ outcome.kind = "network" /\ outcome.code \in {"ECONNRESET", "ETIMEDOUT"}

\* The k-th attempt of the call was followed by another, or will be.
AttemptRetried(k) ==
    \/ k < Len(call.attempts)
    \/ k = Len(call.attempts) /\ call.pc \in {"retryDelay", "completion"}

\* C32: analyzeProduct never rejects and makes at most 4 attempts of the
\* external call; an attempt is retried exactly when it failed with 429, 5xx,
\* ECONNRESET or ETIMEDOUT and fewer than 3 retries were used; a call whose
\* last attempt failed resolves with an analysis that carries the error; and
\* a retry that is due is made.
C32_NeverRejects ==
    /\ [](call.pc # "rejected")
    /\ [](Len(call.attempts) <= AnalyzerMaxRetries + 1)
    /\ [](\A k \in 1..Len(call.attempts) :
            AttemptRetried(k) <=>
                RetryableCompletion(call.attempts[k]) /\ k <= AnalyzerMaxRetries)
    /\ [](call.pc = "resolved" =>
            /\ call.result # null
            /\ "summary" \in DOMAIN call.result
            /\ call.attempts # <<>>
                   /\ call.attempts[Len(call.attempts)].kind \in {"api", "network", "malformed"} =>
                /\ HasError(call.result)
                /\ call.result.error = ErrorMessage(call.attempts[Len(call.attempts)]))
    /\ (call.pc = "retryDelay" ~> call.pc = "completion")

\* Four attempts failed with retryable errors of both kinds and the call
\* resolved with an analysis that carries the last error.
C32_Witness ==
    /\ call.pc = "resolved"
    /\ Len(call.attempts) = AnalyzerMaxRetries + 1
    /\ \A k \in 1..Len(call.attempts) : RetryableCompletion(call.attempts[k])
    /\ call.attempts[1].kind = "api"
    /\ call.attempts[Len(call.attempts)].kind = "network"
    /\ HasError(call.result)

\* The categories of the rule-based analysis the topics of a product match.
MatchedCategories(product) ==
    {n \in 1..Len(FallbackCategories) :
        /\ "topics" \in DOMAIN product
        /\ SomeTopic(product.topics, FallbackCategories[n].k1, FallbackCategories[n].k2)}

\* C36: the rule-based analysis is defined for every product; its
\* successProbability is high exactly above 100 votes, low exactly below 20
\* and medium otherwise, a missing vote count being 0; targetUsers has one
\* entry for each category the topics match, in the order of the categories,
\* and the general-users entry alone when none matches; userPersonas has at
\* most 3 entries; there is no error field.
C36_FallbackRules ==
    call.pc = "resolved" /\ ~openai =>
        LET product == call.product
            result == call.result
            votes == IF "votesCount" \in DOMAIN product THEN product.votesCount ELSE 0
            matched == MatchedCategories(product)
        IN  /\ result.successProbability = "high" <=> votes > 100
            /\ result.successProbability = "low" <=> votes < 20
            /\ result.successProbability = "medium" <=> (votes >= 20 /\ votes <= 100)
            /\ Len(result.targetUsers) > 0
            /\ matched = {} =>
                   result.targetUsers = <<[demographic |-> "general", likelihood |-> "medium"]>>
            /\ matched # {} =>
                /\ Len(result.targetUsers) = Cardinality(matched)
                /\ \A n \in matched :
                     \E k \in 1..Len(result.targetUsers) :
                        result.targetUsers[k].demographic = FallbackCategories[n].demographic
                /\ \A j, k \in 1..Len(result.targetUsers) :
                     j < k => result.targetUsers[j].demographic
                                  # result.targetUsers[k].demographic
            /\ Len(result.userPersonas) <= 3
            /\ \A k \in 1..Len(result.userPersonas) :
                 result.userPersonas[k] = result.targetUsers[k].demographic
            /\ ~HasError(result)

\* A product without a vote count whose topics match all five categories got
\* a low probability, five target users and three personas.
C36_Witness ==
    /\ call.pc = "resolved"
    /\ ~openai
    /\ "votesCount" \notin DOMAIN call.product
    /\ Cardinality(MatchedCategories(call.product)) = 5
    /\ call.result.successProbability = "low"
    /\ Len(call.result.targetUsers) = 5
    /\ Len(call.result.userPersonas) = 3

\* A step in which the loser of a decided race settles.
LateSettlement == lateFetch' # lateFetch \/ abandoned \ abandoned' # {}

\* C33: when the loser of a decided race settles later (the analyzer after
\* its ceiling, a ceiling timer after its operation, the fetch after its
\* ceiling), the run is left as it is: no event is written, successCount,
\* errorCount and the recorded analyses do not change, and the handler stays
\* where it is.
C33_LateSettlementInert ==
    [][LateSettlement =>
          UNCHANGED <<events, successCount, errorCount, analyzedProducts, products,
                      pc, i, endCalls, closedAt, latestAnalysisResults>>]_vars

\* An analyzer call settled after its ceiling had fired, a ceiling timer fired
\* after its analyzer call had won, and the run completed.
C33_Witness ==
    /\ CompleteEmitted
    /\ \E p \in abandoned : p.what \in {"resolved call", "rejected call"}
    /\ \E p \in abandoned : p.what = "fired timer"
    /\ successCount = 1
    /\ errorCount = 1

\* C34: no frame is written to the response after the handler has called
\* res.end(): from the first res.end() of a run on, on the abort paths and
\* on the complete path, the frames written are those written before it, and
\* the handler is finished.
C34_NoWriteAfterEnd ==
    /\ (endCalls > 0) <=> (closedAt >= 0)
    /\ endCalls > 0 =>
        /\ Len(events) = closedAt
        /\ pc = "done"

\* A run aborted for want of a credential: the error event was written, then
\* res.end() was called by the return and again by the finally block.
C34_Witness ==
    /\ endCalls = 2
    /\ closedAt = Len(events)
    /\ IsError(events[Len(events)])
    /\ tokenLog = "absent"

\* C35: getStoredToken never raises and returns a credential or null. A
\* configured developer token is returned without the token file being
\* read. Otherwise a file that is missing, unreadable or not a token, a
\* failed refresh and a failed store of the refreshed token all give null,
\* and the access token of a stored token that has expired is returned only
\* by refreshToken.
C35_StoredToken ==
    /\ auth.pc # "raised"
    /\ auth.pc = "returned" =>
        /\ auth.result = null \/ auth.result \in {Str(t) : t \in {"dev-token", "t1", "t2"}}
        /\ auth.developerToken # null =>
            /\ auth.result = auth.developerToken
            /\ auth.path = <<"developerToken">>
        /\ auth.developerToken = null =>
            /\ auth.path[1] = "readFile"
            /\ auth.token = null => auth.result = null /\ auth.path = <<"readFile">>
            /\ auth.path[Len(auth.path)] \in {"refresh failed", "store failed"} =>
                   auth.result = null
            /\ auth.token # null /\ IsExpired(auth.token) =>
                /\ Len(auth.path) >= 2
                /\ auth.path[2] = "refreshToken"
                /\ ~auth.client => auth.result = null
            /\ auth.token # null /\ ~IsExpired(auth.token) =>
                /\ auth.result = Str(auth.token.access_token)
                /\ auth.path = <<"readFile">>

\* An expired token was read, refreshed and stored, and the refreshed access
\* token was returned.
C35_Witness ==
    /\ auth.pc = "returned"
    /\ auth.token # null
    /\ IsExpired(auth.token)
    /\ auth.path = <<"readFile", "refreshToken", "refresh", "storeToken">>
    /\ auth.result = Str("t2")
    /\ auth.file.access_token = "t2"

\* The smaller of two numbers.
Smaller(a, b) == IF a < b THEN a ELSE b

\* C37: when the GraphQL request delivers posts, getTrendingProducts
\* resolves, if any post was created or featured today, with today's posts
\* by vote count in non-increasing order (a missing count being 0), cut to
\* the limit: the result holds no post twice, only posts of today, and no
\* post left out has more votes than one that is in; if no post is of today
\* it resolves with the first limit posts in the order delivered. The
\* request asks for min(2 * limit, 30) posts.
C37_TodaySortedOrTrending ==
    /\ listing.pc # "idle" => listing.first = Smaller(2 * listing.limit, 30)
    /\ listing.source = "graphql" =>
        LET posts == listing.http[Len(listing.http)].answer.body.posts
            result == listing.result
            todays == {k \in 1..Len(posts) : posts[k].today}
            PostOf(id) == CHOOSE k \in 1..Len(posts) : posts[k].id = id
        IN  /\ todays # {} =>
                /\ Len(result) = Smaller(listing.limit, Cardinality(todays))
                /\ \A k \in 1..Len(result) : PostOf(result[k].id) \in todays
                /\ \A j, k \in 1..Len(result) : j < k =>
                    /\ result[j].id # result[k].id
                    /\ VotesOrZero(result[j]) >= VotesOrZero(result[k])
                    /\ VotesOrZero(result[j]) = VotesOrZero(result[k]) =>
                           PostOf(result[j].id) < PostOf(result[k].id)
                /\ \A k \in 1..Len(result) :
                     VotesOrZero(result[k]) = VotesOrZero(posts[PostOf(result[k].id)])
                /\ \A t \in todays :
                     (\A k \in 1..Len(result) : result[k].id # posts[t].id) =>
                         \A k \in 1..Len(result) :
                             VotesOrZero(posts[t]) <= VotesOrZero(result[k])
            /\ todays = {} =>
                /\ Len(result) = Smaller(listing.limit, Len(posts))
                /\ \A k \in 1..Len(result) : result[k].id = posts[k].id

\* The GraphQL request delivered more posts of today than the limit, among
\* them one without a vote count and not in the order of their votes; the
\* call resolved with 3 of them.
C37_Witness ==
    /\ listing.source = "graphql"
    /\ listing.limit = QuickLimit
    /\ Len(listing.result) = QuickLimit
    /\ LET posts == listing.http[Len(listing.http)].answer.body.posts
       IN  /\ Cardinality({k \in 1..Len(posts) : posts[k].today}) > QuickLimit
           /\ \E k \in 1..Len(posts) : posts[k].today /\ "votesCount" \notin DOMAIN posts[k]
           /\ listing.result[1].id # posts[1].id

\* checkEnvironment has to turn the request away: production, a list of
\* allowed domains that is not empty, and a Host header that is not in it.
MustDeny ==
    /\ gate.NODE_ENV = "production"
    /\ gate.ALLOWED_DOMAINS # null
    /\ gate.ALLOWED_DOMAINS.fields # <<"">>
    /\ \A k \in 1..Len(gate.ALLOWED_DOMAINS.fields) :
         gate.request.host = "absent" \/ gate.ALLOWED_DOMAINS.fields[k] # gate.request.host

\* C38: in production with a non-empty ALLOWED_DOMAINS, a request whose Host
\* header is not in the list is answered 403 by checkEnvironment and reaches
\* no route handler, so it starts no run and neither reads nor changes the
\* slot of the latest results; in every other configuration the request is
\* passed on as it came, with no response from checkEnvironment.
C38_DeniedNeverRouted ==
    gate.pc \in {"responded", "next", "handler"} =>
        /\ MustDeny =>
            /\ gate.pc = "responded"
            /\ gate.status = 403
            /\ gate.reached = "none"
        /\ ~MustDeny =>
            /\ gate.pc \in {"next", "handler"}
            /\ gate.status = 0
            /\ gate.pc = "handler" => gate.reached = gate.request.route
        /\ gate.status = 403 => gate.reached = "none"

\* In production a request for the streaming route with a Host header that
\* is not in the list of two domains was answered 403.
C38_Witness ==
    /\ gate.pc = "responded"
    /\ gate.status = 403
    /\ gate.NODE_ENV = "production"
    /\ gate.ALLOWED_DOMAINS = [fields |-> <<"a.example", "b.example">>]
    /\ gate.request = [host |-> "evil.example", route |-> "GET /api/analyze-stream"]
    /\ gate.reached = "none"

====
